---- MODULE Spec2Model ----
(***************************************************************************)
(* Batch-fetch pipeline of the GitHub user batch finder.                   *)
(*                                                                         *)
(*   Spec       BatchProcessor / BatchOperation                            *)
(*              (src/js/services/batch-processor.js): runs, chunks,        *)
(*              the fan-out of a chunk, cancellation, progress snapshots.  *)
(*              A lookup is one call of apiService.fetchUserWithRetry: a   *)
(*              promise that is pending and then fulfils with a result or  *)
(*              rejects.                                                   *)
(*   SpecThrow  the same, with onProgress and onResult callbacks that may  *)
(*              throw.                                                     *)
(*   SpecRetry  GitHubApiService.fetchUserWithRetry                        *)
(*              (src/js/services/github-api.js): one invocation of the     *)
(*              retry wrapper, attempt by attempt.                         *)
(*   SpecLive   the batch run with its lookups retried attempt by attempt, *)
(*              under weak fairness of the network and the timers.         *)
(*   SpecChunks BatchOperation._createChunks.                              *)
(*   SpecValidate  InputValidator.validateUsername                         *)
(*              (src/js/utils/validator.js).                               *)
(*   SpecParse  InputValidator.parseAndValidateUsernames.                  *)
(*   SpecApp    GitHubUserFinderApp.searchUsers / cancelSearch             *)
(*              (src/js/app.js) over the batch processor.                  *)
(*   SpecService  GitHubApiService.fetchUser: the calls made on one        *)
(*              service, with their HTTP calls.                            *)
(*   SpecRateLimit  GitHubApiService.isRateLimited.                        *)
(*   SpecBundle the GitHubApiService of the bundled app, which caches.     *)
(*                                                                         *)
(* JavaScript runs a handler to its next await without interruption, so    *)
(* one action is the code from one suspension point to the next; the       *)
(* continuation of an await on a settled promise is a microtask and runs   *)
(* before the next task (timer, network response, event handler).          *)
(***************************************************************************)
EXTENDS Integers, Sequences, FiniteSets, TLC

(***************************************************************************)
(* Bounds of the model.                                                    *)
(***************************************************************************)
\* processUsers calls made on the one BatchProcessor instance
MaxRuns == 2
\* longest identifier list handed to processUsers
MaxUsers == 3
\* largest configured chunk size (CONFIG.BATCH.CHUNK_SIZE is configuration)
MaxChunkSize == 2
\* largest maxRetries handed to fetchUserWithRetry
MaxMaxRetries == 3

\* longest identifier list and largest chunk size handed to _createChunks
MaxListLen == 4
MaxSize == 4

\* longest string handed to validateUsername, the long ones around MAX_LENGTH aside
MaxStrLen == 3

\* longest query handed to parseAndValidateUsernames
MaxQueryLen == 5

\* fetchUser calls made on the one GitHubApiService instance of the bundled app
MaxCachedCalls == 3

\* fetchUser calls made on the one GitHubApiService instance
MaxCalls == 2

\* CONFIG.API.RATE_LIMIT.RETRY_DELAY, in ms
RETRY_DELAY == 5000
\* CONFIG.API.RATE_LIMIT.MAX_RETRIES: the default maxRetries of fetchUserWithRetry
MAX_RETRIES == 3
\* CONFIG.VALIDATION.USERNAME
MIN_LENGTH == 1
MAX_LENGTH == 39

AllUsers == <<"octocat", "torvalds", "gaearon", "defunkt", "mojombo">>

\* The identifier lists processUsers is called with: the prefixes of AllUsers.
UserLists == { SubSeq(AllUsers, 1, n) : n \in 0..MaxUsers }

RunIds == 1..MaxRuns
Positions == 1..MaxUsers

Min(a, b) == IF a < b THEN a ELSE b

(***************************************************************************)
(* LookupResult, as fetchUser builds it (github-api.js 40-85): success,    *)
(* username and errorType; the payload and the message are left out.       *)
(***************************************************************************)
FailureKinds == {"NOT_FOUND", "RATE_LIMITED", "NETWORK_ERROR", "API_ERROR"}

SuccessResult(username) ==
    [success |-> TRUE, username |-> username, errorType |-> "NONE"]

FailureResult(username, kind) ==
    [success |-> FALSE, username |-> username, errorType |-> kind]

\* What the promise of one lookup of a batch can settle with: fulfilled with a
\* Success, fulfilled with a Failure, or rejected.  batch-processor.js reads of
\* a Failure only success and errorType === 'RATE_LIMITED', so one other kind
\* stands for the failures that are not RATE_LIMITED.
BatchFailureKinds == {"NOT_FOUND", "RATE_LIMITED"}
FulfilledOutcomes == {"SUCCESS"} \cup BatchFailureKinds

ResultOf(username, outcome) ==
    IF outcome = "SUCCESS" THEN SuccessResult(username)
    ELSE FailureResult(username, outcome)

VARIABLES
    chunkSize,          \* BatchProcessor.chunkSize
    isProcessing,       \* BatchProcessor.isProcessing
    currentOperation,   \* BatchProcessor.currentOperation: a run id, 0 is null
    results,            \* BatchProcessor.results: the keys of the Map
    op,                 \* run id -> the BatchOperation of that processUsers call
    lookup              \* run id -> position -> state of that lookup promise

batchVars == <<chunkSize, isProcessing, currentOperation, results, op, lookup>>

VARIABLES
    retry               \* one invocation of GitHubApiService.fetchUserWithRetry

retryVars == <<retry>>

VARIABLES
    fetching            \* run id -> position -> where the fetchUserWithRetry
                        \* call of that lookup is: its attempt, its await

fetchVars == <<fetching>>

VARIABLES
    created             \* one call of _createChunks: its input and its result

chunkVars == <<created>>

VARIABLES
    validated           \* one call of InputValidator.validateUsername

validateVars == <<validated>>

VARIABLES
    parsed              \* one call of InputValidator.parseAndValidateUsernames

parseVars == <<parsed>>

VARIABLES
    app                 \* GitHubUserFinderApp: its state and its last search

appVars == <<app>>

VARIABLES
    rateLimitInfo,      \* GitHubApiService.rateLimitInfo
    call,               \* call id -> that call of GitHubApiService.fetchUser
    rateLimited         \* one call of GitHubApiService.isRateLimited

serviceVars == <<rateLimitInfo, call, rateLimited>>

VARIABLES
    cache,              \* GitHubApiService.cache of the bundled app: key -> result
    cachedCall          \* call id -> that call of the bundled fetchUser

bundleVars == <<cache, cachedCall>>

vars == <<batchVars, retryVars, fetchVars, chunkVars, validateVars, parseVars, appVars,
          serviceVars, bundleVars>>

\* What the actions of one part of the program leave alone.
otherThanBatch == <<retryVars, fetchVars, chunkVars, validateVars, parseVars, appVars,
                    serviceVars,
                    bundleVars>>
otherThanLookup == <<retryVars, chunkVars, validateVars, parseVars, appVars, serviceVars,
                    bundleVars>>
otherThanFetch == <<batchVars, retryVars, chunkVars, validateVars, parseVars, appVars,
                    serviceVars,
                    bundleVars>>
otherThanRetry == <<batchVars, fetchVars, chunkVars, validateVars, parseVars, appVars,
                    serviceVars,
                    bundleVars>>
otherThanChunks == <<batchVars, retryVars, fetchVars, validateVars, parseVars, appVars,
                     serviceVars,
                    bundleVars>>
otherThanValidate == <<batchVars, retryVars, fetchVars, chunkVars, parseVars, appVars,
                       serviceVars,
                    bundleVars>>
otherThanParse == <<batchVars, retryVars, fetchVars, chunkVars, validateVars, appVars,
                    serviceVars,
                    bundleVars>>
otherThanApp == <<retryVars, fetchVars, chunkVars, validateVars, parseVars, serviceVars,
                    bundleVars>>
otherThanAppLookup == <<retryVars, chunkVars, validateVars, parseVars, serviceVars,
                    bundleVars>>
otherThanService == <<batchVars, retryVars, fetchVars, chunkVars, validateVars, parseVars,
                      appVars, bundleVars>>
otherThanBundle == <<batchVars, retryVars, fetchVars, chunkVars, validateVars, parseVars,
                     appVars, serviceVars>>


(***************************************************************************)
(* BatchOperation (batch-processor.js 113-311)                             *)
(***************************************************************************)
\* Mutant of CreateChunksFrom: only whole chunks are cut
\* (i + size <= usernames.length).
RECURSIVE CreateChunksFromWhole(_, _, _, _)
CreateChunksFromWhole(usernames, size, i, chunks) ==
    IF i + size <= Len(usernames)
    THEN CreateChunksFromWhole(usernames, size, i + size,
             Append(chunks, SubSeq(usernames, i + 1, i + size)))
    ELSE chunks

RECURSIVE CreateChunksFrom(_, _, _, _)
CreateChunksFrom(usernames, size, i, chunks) ==
    IF i < Len(usernames)
    THEN CreateChunksFrom(usernames, size, i + size,
             Append(chunks, SubSeq(usernames, i + 1, Min(i + size, Len(usernames)))))
    ELSE chunks

\* _createChunks: for (i = 0; i < length; i += chunkSize) push(slice(i, i + chunkSize))
CreateChunks(usernames, size) == CreateChunksFrom(usernames, size, 0, <<>>)

ZeroStats == [processed |-> 0, successful |-> 0, failed |-> 0, rateLimitHits |-> 0]

\* A run id whose processUsers call has not been made yet.
NoOperation ==
    [pc |-> "idle", usernames |-> <<>>, chunkSize |-> 0, chunks |-> <<>>,
     chunkIndex |-> 0, cancelled |-> FALSE, stats |-> ZeroStats,
     allResults |-> <<>>, log |-> <<>>, cancelPoint |-> <<>>]

\* new BatchOperation(usernames, apiService, {chunkSize, delayBetweenChunks})
NewOperation(usernames, size) ==
    [NoOperation EXCEPT !.usernames = usernames, !.chunkSize = size,
                        !.chunks = CreateChunks(usernames, size)]

\* The calls a run makes on its callbacks and on the api service are recorded
\* in the order the run makes them, in log.
Call(name, arg) == [call |-> name, arg |-> arg]

\* Mutant of ReportProgress: every snapshot says isComplete.
ReportProgressAlwaysComplete(o, currentChunk, isComplete) ==
    [o EXCEPT !.log = Append(@, Call("onProgress",
        [processed |-> o.stats.processed,
         total |-> Len(o.usernames),
         currentChunk |-> currentChunk + 1,
         totalChunks |-> Len(o.chunks),
         rateLimitHits |-> o.stats.rateLimitHits,
         successful |-> o.stats.successful,
         failed |-> o.stats.failed,
         isComplete |-> TRUE,
         cancelled |-> o.cancelled]))]

\* Mutant of ReportProgress: the final report is forgotten.
ReportProgressNoFinal(o, currentChunk, isComplete) ==
    IF isComplete THEN o
    ELSE [o EXCEPT !.log = Append(@, Call("onProgress",
             [processed |-> o.stats.processed,
              total |-> Len(o.usernames),
              currentChunk |-> currentChunk + 1,
              totalChunks |-> Len(o.chunks),
              rateLimitHits |-> o.stats.rateLimitHits,
              successful |-> o.stats.successful,
              failed |-> o.stats.failed,
              isComplete |-> isComplete,
              cancelled |-> o.cancelled]))]

\* _reportProgress: the snapshot handed to onProgress.
ReportProgress(o, currentChunk, isComplete) ==
    [o EXCEPT !.log = Append(@, Call("onProgress",
        [processed |-> o.stats.processed,
         total |-> Len(o.usernames),
         currentChunk |-> currentChunk + 1,
         totalChunks |-> Len(o.chunks),
         rateLimitHits |-> o.stats.rateLimitHits,
         successful |-> o.stats.successful,
         failed |-> o.stats.failed,
         isComplete |-> isComplete,
         cancelled |-> o.cancelled]))]

\* Mutant of UpdateStats: failed is incremented for every result.
UpdateStatsAlwaysFailed(stats, result) ==
    [stats EXCEPT !.processed = @ + 1,
                  !.successful = IF result.success THEN @ + 1 ELSE @,
                  !.failed = @ + 1]

\* _updateStats
UpdateStats(stats, result) ==
    [stats EXCEPT !.processed = @ + 1,
                  !.successful = IF result.success THEN @ + 1 ELSE @,
                  !.failed = IF result.success THEN @ ELSE @ + 1]

\* One round of the forEach of execute: allResults.push(result);
\* this._updateStats(result); onResult(result).
StreamResult(o, result) ==
    [o EXCEPT !.allResults = Append(@, result),
              !.stats = UpdateStats(@, result),
              !.log = Append(@, Call("onResult", result))]

RECURSIVE StreamResults(_, _)
StreamResults(o, rs) ==
    IF rs = <<>> THEN o
    ELSE StreamResults(StreamResult(o, Head(rs)), Tail(rs))

RECURSIVE ChunkStart(_, _)
\* Number of identifiers in the chunks before chunk idx (idx counts from 0).
ChunkStart(chunks, idx) ==
    IF idx = 0 THEN 0 ELSE ChunkStart(chunks, idx - 1) + Len(chunks[idx])

\* The positions in usernames of the identifiers of chunk idx.
ChunkPositions(o, idx) ==
    IF idx < Len(o.chunks)
    THEN { ChunkStart(o.chunks, idx) + j : j \in 1..Len(o.chunks[idx + 1]) }
    ELSE {}

\* The chunk (counted from 0) a position belongs to.
ChunkOf(o, p) == CHOOSE idx \in 0..Len(o.chunks) : p \in ChunkPositions(o, idx)

RECURSIVE LogLookups(_, _)
\* _processChunk, the fan-out: chunk.map(username => fetchUserWithRetry(username))
LogLookups(o, chunk) ==
    IF chunk = <<>> THEN o
    ELSE LogLookups([o EXCEPT !.log = Append(@, Call("fetchUserWithRetry", Head(chunk)))],
                    Tail(chunk))

\* Mutant of ExecuteFrom: the loop head does not look at the cancelled flag.
ExecuteFromUncancelled(o, idx) ==
    IF idx < Len(o.chunks)
    THEN [LogLookups(ReportProgress(o, idx, FALSE), o.chunks[idx + 1])
             EXCEPT !.pc = "awaitChunk", !.chunkIndex = idx]
    ELSE [ReportProgress(o, Len(o.chunks), TRUE)
             EXCEPT !.pc = "finishing", !.chunkIndex = idx]

\* Mutant of ExecuteFrom: the lookups of the chunk are issued before its
\* snapshot is reported.
ExecuteFromLookupsFirst(o, idx) ==
    IF idx < Len(o.chunks) /\ ~o.cancelled
    THEN [ReportProgress(LogLookups(o, o.chunks[idx + 1]), idx, FALSE)
             EXCEPT !.pc = "awaitChunk", !.chunkIndex = idx]
    ELSE [ReportProgress(o, Len(o.chunks), TRUE)
             EXCEPT !.pc = "finishing", !.chunkIndex = idx]

\* execute from the head of the loop with chunkIndex = idx, up to its next
\* await: leave the loop (end of the chunks, or cancelled) and emit the final
\* snapshot, or emit the snapshot of chunk idx and issue its lookups.
ExecuteFrom(o, idx) ==
    IF idx < Len(o.chunks) /\ ~o.cancelled
    THEN [LogLookups(ReportProgress(o, idx, FALSE), o.chunks[idx + 1])
             EXCEPT !.pc = "awaitChunk", !.chunkIndex = idx]
    ELSE [ReportProgress(o, Len(o.chunks), TRUE)
             EXCEPT !.pc = "finishing", !.chunkIndex = idx]

\* Mutant of AfterChunk: the delay is waited also when cancelled.
AfterChunkAlwaysDelay(o) ==
    IF o.chunkIndex < Len(o.chunks) - 1
    THEN [o EXCEPT !.pc = "delay"]
    ELSE ExecuteFrom(o, o.chunkIndex + 1)

\* execute after the results of a chunk were streamed: the delay between
\* chunks (except after the last chunk, or when cancelled), else the loop head.
AfterChunk(o) ==
    IF o.chunkIndex < Len(o.chunks) - 1 /\ ~o.cancelled
    THEN [o EXCEPT !.pc = "delay"]
    ELSE ExecuteFrom(o, o.chunkIndex + 1)

\* Mutant of ChunkResults: the results of a chunk come in the reverse of the
\* order of the chunk.
ChunkResultsReversed(o, lk) ==
    LET chunk == o.chunks[o.chunkIndex + 1]
        start == ChunkStart(o.chunks, o.chunkIndex)
        n == Len(chunk)
    IN  [j \in 1..n |-> ResultOf(chunk[n + 1 - j], lk[start + n + 1 - j])]

\* _processChunk after Promise.all fulfilled: one rateLimitHits per chunk that
\* holds a RATE_LIMITED result; the results in the order of the chunk.
ChunkResults(o, lk) ==
    LET chunk == o.chunks[o.chunkIndex + 1]
        start == ChunkStart(o.chunks, o.chunkIndex)
    IN  [j \in 1..Len(chunk) |-> ResultOf(chunk[j], lk[start + j])]

CountRateLimit(o, rs) ==
    IF \E j \in 1..Len(rs) : rs[j].errorType = "RATE_LIMITED"
    THEN [o EXCEPT !.stats.rateLimitHits = @ + 1]
    ELSE o

\* Mutant of ErrorResults: the catch only logs, the identifiers are lost.
ErrorResultsDropped(o) == <<>>

\* The catch of execute: one PROCESSING_ERROR result per identifier of the chunk.
ErrorResults(o) ==
    LET chunk == o.chunks[o.chunkIndex + 1]
    IN  [j \in 1..Len(chunk) |-> FailureResult(chunk[j], "PROCESSING_ERROR")]

\* Mutant of ResumeFulfilled: the results are collected but handed to
\* onResult by nobody.
ResumeFulfilledBuffered(o, rs) ==
    AfterChunk([CountRateLimit(o, rs) EXCEPT !.allResults = @ \o rs])

\* execute resumes after await this._processChunk(...) fulfilled with rs:
\* _processChunk counts the rate limiting, the forEach streams the results,
\* then the delay between chunks or the loop head.
ResumeFulfilled(o, rs) == AfterChunk(StreamResults(CountRateLimit(o, rs), rs))

\* Mutant of ResumeRejected: the catch streams the error results and the run
\* ends there (the error is rethrown out of the loop into the final report).
ResumeRejectedAbort(o) ==
    LET o1 == StreamResults(o, ErrorResults(o))
    IN  [ReportProgress(o1, Len(o1.chunks), TRUE) EXCEPT !.pc = "finishing"]

\* Mutant of ResumeRejected: the loop goes on to the next chunk before the
\* error results of the failed chunk are streamed.
ResumeRejectedPipelined(o) ==
    StreamResults(ExecuteFrom(o, o.chunkIndex + 1), ErrorResults(o))

\* Mutant of ResumeRejected: the error results are handed to onResult but not
\* pushed to allResults.
ResumeRejectedUnrecorded(o) ==
    LET o1 == StreamResults(o, ErrorResults(o))
    IN  ExecuteFrom([o1 EXCEPT !.allResults = o.allResults], o1.chunkIndex + 1)

\* execute resumes in its catch: the error results of the chunk are streamed,
\* then the loop head, without a delay.
ResumeRejected(o) ==
    LET o1 == StreamResults(o, ErrorResults(o))
    IN  ExecuteFrom(o1, o1.chunkIndex + 1)

\* The promises _processChunk creates: the lookups of the chunk become pending.
IssueLookups(lk, o) ==
    IF o.pc = "awaitChunk"
    THEN [p \in Positions |->
            IF p \in ChunkPositions(o, o.chunkIndex) THEN "pending" ELSE lk[p]]
    ELSE lk

\* let attempt = 1 and the first await this.fetchUser(username)
FirstAttempt == [attempt |-> 1, pc |-> "fetchUser"]

\* The fetchUserWithRetry call of lookup p of run r is over: its frame is
\* gone, only the settled promise is left.
Settled(r, p) == fetching' = [fetching EXCEPT ![r][p] = FirstAttempt]

(***************************************************************************)
(* BatchProcessor (batch-processor.js 12-107)                              *)
(***************************************************************************)
BatchInit ==
    /\ chunkSize \in 1..MaxChunkSize
    /\ isProcessing = FALSE
    /\ currentOperation = 0
    /\ results = {}
    /\ op = [r \in RunIds |-> NoOperation]
    /\ lookup = [r \in RunIds |-> [p \in Positions |-> "none"]]

\* A task (a call from an event handler, a network response, a timer) runs
\* only when the microtask queue is empty: when execute has returned, the
\* continuation of processUsers after await operation.execute(...) runs before
\* any other task.
MicrotasksDone == \A r \in RunIds : op[r].pc # "finishing"

\* The processUsers calls are numbered in the order they are made.
NextRun(r) == op[r].pc = "idle" /\ \A q \in RunIds : q < r => op[q].pc # "idle"

\* processUsers, accepted: up to the first await of execute.
ProcessUsersCall(r, usernames) ==
    /\ MicrotasksDone
    /\ NextRun(r)
    /\ ~isProcessing
    /\ isProcessing' = TRUE
    /\ results' = {}
    /\ currentOperation' = r
    /\ LET o == ExecuteFrom(NewOperation(usernames, chunkSize), 0)
       IN  /\ op' = [op EXCEPT ![r] = o]
           /\ lookup' = [lookup EXCEPT ![r] = IssueLookups(@, o)]
    /\ UNCHANGED chunkSize

\* processUsers is called on the BatchProcessor and accepted.
ProcessUsers(r, usernames) ==
    ProcessUsersCall(r, usernames) /\ UNCHANGED otherThanBatch

\* processUsers while isProcessing: throws 'Batch processor is already running'.
ProcessUsersAlreadyRunning(r) ==
    /\ MicrotasksDone
    /\ NextRun(r)
    /\ isProcessing
    /\ op' = [op EXCEPT ![r].pc = "alreadyRunning"]
    /\ UNCHANGED <<chunkSize, isProcessing, currentOperation, results, lookup>>
    /\ UNCHANGED otherThanBatch

\* BatchProcessor.cancel and the BatchOperation.cancel it calls.
CancelCall ==
    /\ MicrotasksDone
    /\ currentOperation # 0
    /\ op' = [op EXCEPT ![currentOperation].cancelled = TRUE,
                        ![currentOperation].cancelPoint =
                            IF @ = <<>> THEN <<op[currentOperation].pc,
                                               op[currentOperation].chunkIndex>>
                            ELSE @]
    /\ isProcessing' = FALSE
    /\ UNCHANGED <<chunkSize, currentOperation, results, lookup>>

\* cancel() is called on the BatchProcessor.
Cancel == CancelCall /\ UNCHANGED otherThanBatch

\* Lookup p of run r is one that execute is awaiting in Promise.all.
Awaited(r, p) ==
    op[r].pc = "awaitChunk" /\ p \in ChunkPositions(op[r], op[r].chunkIndex)

\* Promise.all of the awaited chunk is still pending after lookup p fulfils.
OthersPending(r, p) ==
    \E q \in ChunkPositions(op[r], op[r].chunkIndex) : q # p /\ lookup[r][q] = "pending"

\* An awaited lookup fulfils while another lookup of its chunk is pending:
\* Promise.all stays pending, execute stays suspended.
LookupFulfilled(r, p, outcome) ==
    /\ MicrotasksDone
    /\ lookup[r][p] = "pending"
    /\ Awaited(r, p)
    /\ OthersPending(r, p)
    /\ lookup' = [lookup EXCEPT ![r][p] = outcome]
    /\ UNCHANGED <<chunkSize, isProcessing, currentOperation, results, op>>
    /\ Settled(r, p)
    /\ UNCHANGED otherThanLookup

\* The last pending lookup of the awaited chunk fulfils: Promise.all fulfils
\* and execute resumes in the same turn of the microtask queue, streams the
\* results of the chunk, and runs to its next await.
ChunkFulfilledCall(r, p, outcome) ==
    /\ MicrotasksDone
    /\ lookup[r][p] = "pending"
    /\ Awaited(r, p)
    /\ ~OthersPending(r, p)
    /\ LET lk == [lookup[r] EXCEPT ![p] = outcome]
           o2 == ResumeFulfilled(op[r], ChunkResults(op[r], lk))
       IN  /\ op' = [op EXCEPT ![r] = o2]
           /\ lookup' = [lookup EXCEPT ![r] = IssueLookups(lk, o2)]
    /\ UNCHANGED <<chunkSize, isProcessing, currentOperation, results>>
    /\ Settled(r, p)

\* The same, with callbacks that keep no state.
ChunkFulfilled(r, p, outcome) ==
    ChunkFulfilledCall(r, p, outcome) /\ UNCHANGED otherThanLookup

\* An awaited lookup rejects: Promise.all rejects at once, whatever the other
\* lookups of the chunk are doing, and execute resumes in its catch.
ChunkRejectedCall(r, p) ==
    /\ MicrotasksDone
    /\ lookup[r][p] = "pending"
    /\ Awaited(r, p)
    /\ LET lk == [lookup[r] EXCEPT ![p] = "REJECTED"]
           o2 == ResumeRejected(op[r])
       IN  /\ op' = [op EXCEPT ![r] = o2]
           /\ lookup' = [lookup EXCEPT ![r] = IssueLookups(lk, o2)]
    /\ UNCHANGED <<chunkSize, isProcessing, currentOperation, results>>
    /\ Settled(r, p)

\* The same, with callbacks that keep no state.
ChunkRejected(r, p) ==
    ChunkRejectedCall(r, p) /\ UNCHANGED otherThanLookup

\* A lookup that execute no longer awaits settles (its chunk was left through
\* the catch): nothing reads the outcome.
AbandonedSettled(r, p) ==
    /\ MicrotasksDone
    /\ lookup[r][p] = "pending"
    /\ ~Awaited(r, p)
    /\ lookup' = [lookup EXCEPT ![r][p] =
                      IF op[r].pc = "returned" THEN "none" ELSE "abandoned"]
    /\ UNCHANGED <<chunkSize, isProcessing, currentOperation, results, op>>
    /\ Settled(r, p)
    /\ UNCHANGED otherThanLookup

\* The timer of the delay between chunks fires.
DelayElapsed(r) ==
    /\ MicrotasksDone
    /\ op[r].pc = "delay"
    /\ LET o2 == ExecuteFrom(op[r], op[r].chunkIndex + 1)
       IN  /\ op' = [op EXCEPT ![r] = o2]
           /\ lookup' = [lookup EXCEPT ![r] = IssueLookups(@, o2)]
    /\ UNCHANGED <<chunkSize, isProcessing, currentOperation, results>>
    /\ UNCHANGED otherThanBatch

\* processUsers resumes after execute: caches the results by username, then
\* the finally block; the operation is not used again.
ProcessUsersResumes(r) ==
    /\ op[r].pc = "finishing"
    /\ results' = results \cup
           { op[r].allResults[i].username : i \in 1..Len(op[r].allResults) }
    /\ isProcessing' = FALSE
    /\ currentOperation' = 0
    /\ op' = [op EXCEPT ![r] = [NoOperation EXCEPT !.pc = "returned"]]
    /\ lookup' = [lookup EXCEPT ![r] =
                      [p \in Positions |-> IF @[p] = "pending" THEN "pending" ELSE "none"]]
    /\ UNCHANGED chunkSize

\* processUsers returns to a caller that is not modelled further.
ProcessUsersReturn(r) == ProcessUsersResumes(r) /\ UNCHANGED otherThanBatch

\* The run whose cancelled flag a cancel() call would set now: cancel() reads
\* this.currentOperation and does nothing when it is null.
CancelReaches(r) == currentOperation = r

\* isRunning(): return this.isProcessing
IsRunning == isProcessing

Next ==
    \/ \E r \in RunIds, usernames \in UserLists : ProcessUsers(r, usernames)
    \/ \E r \in RunIds : ProcessUsersAlreadyRunning(r)
    \/ Cancel
    \/ \E r \in RunIds, p \in Positions, outcome \in FulfilledOutcomes :
           LookupFulfilled(r, p, outcome)
    \/ \E r \in RunIds, p \in Positions, outcome \in FulfilledOutcomes :
           ChunkFulfilled(r, p, outcome)
    \/ \E r \in RunIds, p \in Positions : ChunkRejected(r, p)
    \/ \E r \in RunIds, p \in Positions : AbandonedSettled(r, p)
    \/ \E r \in RunIds : DelayElapsed(r)
    \/ \E r \in RunIds : ProcessUsersReturn(r)

(***************************************************************************)
(* Callbacks that throw.  onProgress is called outside the inner try of    *)
(* execute (batch-processor.js 156, 199) and onResult inside it (165) and  *)
(* inside its catch (191): what onProgress throws, and what onResult       *)
(* throws in the catch, rejects the promise of execute.  The await of      *)
(* processUsers (50) then throws, the results are not cached, the finally  *)
(* (66-69) runs and the promise of processUsers rejects; all of it in the  *)
(* task in which the callback was called.                                  *)
(***************************************************************************)
\* Mutant of ProcessUsersFinally: the exception leaves processUsers without
\* the flags being reset.
ProcessUsersFinallyMissing(r) == isProcessing' = TRUE /\ currentOperation' = r

\* The finally of processUsers.
ProcessUsersFinally(r) == isProcessing' = FALSE /\ currentOperation' = 0

\* processUsers ends by throwing what execute rejected with.
ProcessUsersRejects(r) ==
    /\ ProcessUsersFinally(r)
    /\ op' = [op EXCEPT ![r] = [NoOperation EXCEPT !.pc = "threw"]]
    /\ UNCHANGED chunkSize

\* The lookups of a run that has ended: the pending ones are still in flight.
LookupsLeft(lk) == [p \in Positions |-> IF lk[p] = "pending" THEN "pending" ELSE "none"]

\* processUsers is accepted and the first onProgress call (the snapshot of
\* the first chunk, or the final one of an empty list) throws: no lookup has
\* been issued.
ProcessUsersThrows(r, usernames) ==
    /\ MicrotasksDone
    /\ NextRun(r)
    /\ ~isProcessing
    /\ results' = {}
    /\ ProcessUsersRejects(r)
    /\ UNCHANGED lookup
    /\ UNCHANGED otherThanBatch

\* The last pending lookup of the awaited chunk fulfils and onResult throws
\* on a result of the chunk (165) and again on its error result in the catch
\* (191).
ChunkFulfilledThrows(r, p, outcome) ==
    /\ MicrotasksDone
    /\ lookup[r][p] = "pending"
    /\ Awaited(r, p)
    /\ ~OthersPending(r, p)
    /\ lookup' = [lookup EXCEPT ![r] = LookupsLeft([@ EXCEPT ![p] = outcome])]
    /\ ProcessUsersRejects(r)
    /\ UNCHANGED results
    /\ Settled(r, p)
    /\ UNCHANGED otherThanLookup

\* An awaited lookup rejects and onResult throws on an error result of the
\* chunk in the catch (191); the other lookups of the chunk stay in flight.
ChunkRejectedThrows(r, p) ==
    /\ MicrotasksDone
    /\ lookup[r][p] = "pending"
    /\ Awaited(r, p)
    /\ lookup' = [lookup EXCEPT ![r] = LookupsLeft([@ EXCEPT ![p] = "REJECTED"])]
    /\ ProcessUsersRejects(r)
    /\ UNCHANGED results
    /\ Settled(r, p)
    /\ UNCHANGED otherThanLookup

\* The timer of the delay fires and the onProgress call of the loop head (156,
\* or 199 when cancelled) throws.
DelayElapsedThrows(r) ==
    /\ MicrotasksDone
    /\ op[r].pc = "delay"
    /\ lookup' = [lookup EXCEPT ![r] = LookupsLeft(@)]
    /\ ProcessUsersRejects(r)
    /\ UNCHANGED results
    /\ UNCHANGED otherThanBatch

NextThrow ==
    \/ Next
    \/ \E r \in RunIds, usernames \in UserLists : ProcessUsersThrows(r, usernames)
    \/ \E r \in RunIds, p \in Positions, outcome \in FulfilledOutcomes :
           ChunkFulfilledThrows(r, p, outcome)
    \/ \E r \in RunIds, p \in Positions : ChunkRejectedThrows(r, p)
    \/ \E r \in RunIds : DelayElapsedThrows(r)

(***************************************************************************)
(* GitHubApiService.fetchUserWithRetry (github-api.js 95-137)              *)
(***************************************************************************)
\* What fetchUser returns (github-api.js 40-85).  retryAfter is 0 where the
\* result carries none; a RATE_LIMITED result carries _calculateRetryDelay(),
\* which is positive and at most RETRY_DELAY.  The wrapper reads
\* result.retryAfter || RETRY_DELAY, so a RATE_LIMITED result that carries
\* none is among the results it is handed.
FetchUserResult(username, success, kind, retryAfter) ==
    [success |-> success, username |-> username, errorType |-> kind,
     retryAfter |-> retryAfter]

FetchUserResults(username) ==
    {FetchUserResult(username, TRUE, "NONE", 0)}
    \cup { FetchUserResult(username, FALSE, kind, 0) :
             kind \in FailureKinds \ {"RATE_LIMITED"} }
    \cup { FetchUserResult(username, FALSE, "RATE_LIMITED", d) : d \in {0, 1000, RETRY_DELAY} }

\* let lastError = null
NullResult == FetchUserResult("", FALSE, "NULL", 0)

RECURSIVE Pow2(_)
Pow2(n) == IF n = 0 THEN 1 ELSE 2 * Pow2(n - 1)

NoRetry ==
    [pc |-> "idle", username |-> "", maxRetries |-> 0, attempt |-> 0,
     lastError |-> NullResult, returned |-> NullResult,
     calls |-> 0, attempts |-> <<>>, waits |-> <<>>]

\* Mutant of LoopHead: the loop runs while attempt < maxRetries.
LoopHeadOffByOne(rw, attempt) ==
    IF attempt < rw.maxRetries
    THEN [rw EXCEPT !.attempt = attempt, !.pc = "fetchUser", !.calls = @ + 1]
    ELSE [rw EXCEPT !.attempt = attempt, !.pc = "returned", !.returned = rw.lastError]

\* The head of the for loop with the given attempt: the next fetchUser call,
\* or the end of the loop and return lastError.
LoopHead(rw, attempt) ==
    IF attempt <= rw.maxRetries
    THEN [rw EXCEPT !.attempt = attempt, !.pc = "fetchUser", !.calls = @ + 1]
    ELSE [rw EXCEPT !.attempt = attempt, !.pc = "returned", !.returned = rw.lastError]

\* break; return lastError
BreakLoop(rw) == [rw EXCEPT !.pc = "returned", !.returned = rw.lastError]

\* await this._delay(delay); continue
Delay(rw, delay) == [rw EXCEPT !.pc = "delay", !.waits = Append(@, delay)]

\* Mutant of HandleResult: every failure kind is retried like a network error.
HandleResultRetryAll(rw, result) ==
    LET rw1 == [rw EXCEPT !.attempts = Append(@, result)]
    IN  IF result.success
        THEN [rw1 EXCEPT !.pc = "returned", !.returned = result]
        ELSE LET rw2 == [rw1 EXCEPT !.lastError = result]
             IN  IF rw2.attempt < rw2.maxRetries
                 THEN Delay(rw2, Pow2(rw2.attempt) * 1000)
                 ELSE BreakLoop(rw2)

\* Mutant of HandleResult: lastError keeps the first failure
\* (lastError = lastError || result).
HandleResultKeepFirstError(rw, result) ==
    LET rw1 == [rw EXCEPT !.attempts = Append(@, result)]
    IN  IF result.success
        THEN [rw1 EXCEPT !.pc = "returned", !.returned = result]
        ELSE LET rw2 == [rw1 EXCEPT !.lastError =
                             IF rw1.lastError = NullResult THEN result ELSE @]
             IN  IF result.errorType = "NOT_FOUND" \/ result.errorType = "API_ERROR"
                 THEN BreakLoop(rw2)
                 ELSE IF result.errorType = "RATE_LIMITED"
                 THEN IF rw2.attempt < rw2.maxRetries
                      THEN Delay(rw2, IF result.retryAfter # 0 THEN result.retryAfter
                                      ELSE RETRY_DELAY)
                      ELSE BreakLoop(rw2)
                 ELSE IF result.errorType = "NETWORK_ERROR" /\ rw2.attempt < rw2.maxRetries
                 THEN Delay(rw2, Pow2(rw2.attempt) * 1000)
                 ELSE BreakLoop(rw2)

\* Mutant of HandleResult: after RATE_LIMITED the wait is always RETRY_DELAY.
HandleResultDefaultDelay(rw, result) ==
    LET rw1 == [rw EXCEPT !.attempts = Append(@, result)]
    IN  IF result.success
        THEN [rw1 EXCEPT !.pc = "returned", !.returned = result]
        ELSE LET rw2 == [rw1 EXCEPT !.lastError = result]
             IN  IF result.errorType = "NOT_FOUND" \/ result.errorType = "API_ERROR"
                 THEN BreakLoop(rw2)
                 ELSE IF result.errorType = "RATE_LIMITED"
                 THEN IF rw2.attempt < rw2.maxRetries
                      THEN Delay(rw2, RETRY_DELAY)
                      ELSE BreakLoop(rw2)
                 ELSE IF result.errorType = "NETWORK_ERROR" /\ rw2.attempt < rw2.maxRetries
                 THEN Delay(rw2, Pow2(rw2.attempt) * 1000)
                 ELSE BreakLoop(rw2)

\* Mutant of HandleResult: after NETWORK_ERROR the wait is always 2 s.
HandleResultFixedBackoff(rw, result) ==
    LET rw1 == [rw EXCEPT !.attempts = Append(@, result)]
    IN  IF result.success
        THEN [rw1 EXCEPT !.pc = "returned", !.returned = result]
        ELSE LET rw2 == [rw1 EXCEPT !.lastError = result]
             IN  IF result.errorType = "NOT_FOUND" \/ result.errorType = "API_ERROR"
                 THEN BreakLoop(rw2)
                 ELSE IF result.errorType = "RATE_LIMITED"
                 THEN IF rw2.attempt < rw2.maxRetries
                      THEN Delay(rw2, IF result.retryAfter # 0 THEN result.retryAfter
                                      ELSE RETRY_DELAY)
                      ELSE BreakLoop(rw2)
                 ELSE IF result.errorType = "NETWORK_ERROR" /\ rw2.attempt < rw2.maxRetries
                 THEN Delay(rw2, 2000)
                 ELSE BreakLoop(rw2)

\* The body of the loop after await this.fetchUser(username) gave result
\* (lines 103-133), up to the next await or the return.
HandleResult(rw, result) ==
    LET rw1 == [rw EXCEPT !.attempts = Append(@, result)]
    IN  IF result.success
        THEN [rw1 EXCEPT !.pc = "returned", !.returned = result]
        ELSE LET rw2 == [rw1 EXCEPT !.lastError = result]
             IN  IF result.errorType = "NOT_FOUND" \/ result.errorType = "API_ERROR"
                 THEN BreakLoop(rw2)
                 ELSE IF result.errorType = "RATE_LIMITED"
                 THEN IF rw2.attempt < rw2.maxRetries
                      THEN Delay(rw2, IF result.retryAfter # 0 THEN result.retryAfter
                                      ELSE RETRY_DELAY)
                      ELSE BreakLoop(rw2)
                 ELSE IF result.errorType = "NETWORK_ERROR" /\ rw2.attempt < rw2.maxRetries
                 THEN Delay(rw2, Pow2(rw2.attempt) * 1000)
                 ELSE BreakLoop(rw2)

\* The identifiers fetchUserWithRetry is called with.
RetryUsers == {AllUsers[1], AllUsers[2]}

RetryInit == retry = NoRetry

\* fetchUserWithRetry(username, maxRetries) is called: up to its first await.
FetchUserWithRetry(username, maxRetries) ==
    /\ retry.pc = "idle"
    /\ retry' = LoopHead([NoRetry EXCEPT !.username = username,
                                         !.maxRetries = maxRetries], 1)
    /\ UNCHANGED otherThanRetry

\* The awaited fetchUser returns a result.
FetchUserReturns(result) ==
    /\ retry.pc = "fetchUser"
    /\ result.username = retry.username
    /\ retry' = HandleResult(retry, result)
    /\ UNCHANGED otherThanRetry

\* The awaited fetchUser throws (encodeURIComponent, outside its try): the
\* promise of fetchUserWithRetry rejects.
FetchUserThrows ==
    /\ retry.pc = "fetchUser"
    /\ retry' = [retry EXCEPT !.pc = "rejected"]
    /\ UNCHANGED otherThanRetry

\* The timer of the wait before a retry fires: continue, attempt++.
RetryDelayElapsed ==
    /\ retry.pc = "delay"
    /\ retry' = LoopHead(retry, retry.attempt + 1)
    /\ UNCHANGED otherThanRetry

NextRetry ==
    \/ \E username \in RetryUsers, maxRetries \in 0..MaxMaxRetries :
           FetchUserWithRetry(username, maxRetries)
    \/ \E result \in UNION { FetchUserResults(username) : username \in RetryUsers } :
           FetchUserReturns(result)
    \/ FetchUserThrows
    \/ RetryDelayElapsed

(***************************************************************************)
(* The lookups of a run, attempt by attempt: _processChunk calls           *)
(* fetchUserWithRetry(username) with the default maxRetries for every      *)
(* identifier of the chunk (batch-processor.js 226-228).                   *)
(***************************************************************************)
\* processUsers calls accepted where the lookups are followed attempt by attempt
MaxLiveRuns == 1

\* The outcomes a lookup can fulfil with.
LookupOutcomes == {"SUCCESS"} \cup FailureKinds

FetchInit == fetching = [r \in RunIds |-> [p \in Positions |-> FirstAttempt]]

\* Mutant of NextAttempt: continue without attempt++.
NextAttemptSame(f) == [f EXCEPT !.pc = "fetchUser"]

\* continue; attempt++; the next await this.fetchUser(username)
NextAttempt(f) == [attempt |-> f.attempt + 1, pc |-> "fetchUser"]

\* The attempt that returned a failure of this kind is followed by a wait and
\* another attempt (github-api.js 115-131).
Retried(kind, f) ==
    kind \in {"RATE_LIMITED", "NETWORK_ERROR"} /\ f.attempt < MAX_RETRIES

\* fetchUser of a lookup returns a failure that is retried: the wrapper starts
\* its wait.
LookupRetried(r, p, kind) ==
    /\ MicrotasksDone
    /\ lookup[r][p] = "pending"
    /\ fetching[r][p].pc = "fetchUser"
    /\ Retried(kind, fetching[r][p])
    /\ fetching' = [fetching EXCEPT ![r][p].pc = "delay"]
    /\ UNCHANGED otherThanFetch

\* The timer of a lookup's wait fires: the next attempt.
LookupDelayElapsed(r, p) ==
    /\ MicrotasksDone
    /\ lookup[r][p] = "pending"
    /\ fetching[r][p].pc = "delay"
    /\ fetching' = [fetching EXCEPT ![r][p] = NextAttempt(@)]
    /\ UNCHANGED otherThanFetch

\* fetchUser of an awaited lookup returns a result that fetchUserWithRetry
\* returns: the lookup fulfils.
LookupReturns(r, p, outcome) ==
    /\ fetching[r][p].pc = "fetchUser"
    /\ ~Retried(outcome, fetching[r][p])
    /\ \/ LookupFulfilled(r, p, outcome)
       \/ ChunkFulfilled(r, p, outcome)

\* fetchUser of an awaited lookup throws: the lookup rejects.
LookupThrows(r, p) ==
    /\ fetching[r][p].pc = "fetchUser"
    /\ ChunkRejected(r, p)

\* fetchUser of a lookup nobody awaits returns what is not retried, or throws.
AbandonedReturns(r, p) ==
    /\ fetching[r][p].pc = "fetchUser"
    /\ AbandonedSettled(r, p)

\* The network call of the lookup's current attempt settles.
FetchSettles(r, p) ==
    \/ \E outcome \in LookupOutcomes : LookupReturns(r, p, outcome)
    \/ LookupThrows(r, p)
    \/ AbandonedReturns(r, p)
    \/ \E kind \in FailureKinds : LookupRetried(r, p, kind)

NextLive ==
    \/ \E r \in 1..MaxLiveRuns, usernames \in UserLists : ProcessUsers(r, usernames)
    \/ \E r \in RunIds : ProcessUsersAlreadyRunning(r)
    \/ Cancel
    \/ \E r \in RunIds, p \in Positions : FetchSettles(r, p)
    \/ \E r \in RunIds, p \in Positions : LookupDelayElapsed(r, p)
    \/ \E r \in RunIds : DelayElapsed(r)
    \/ \E r \in RunIds : ProcessUsersReturn(r)

\* Every network call eventually settles, every timer eventually fires, and
\* a continuation that is ready runs.
LiveFairness ==
    /\ \A r \in 1..MaxLiveRuns, p \in Positions :
           WF_vars(FetchSettles(r, p)) /\ WF_vars(LookupDelayElapsed(r, p))
    /\ \A r \in 1..MaxLiveRuns :
           WF_vars(DelayElapsed(r)) /\ WF_vars(ProcessUsersReturn(r))

(***************************************************************************)
(* BatchOperation._createChunks (batch-processor.js 257-263), called on    *)
(* its own.                                                                *)
(***************************************************************************)
\* The identifier lists _createChunks is called with, repetitions included.
ChunkInputs == UNION { [1..n -> {AllUsers[1], AllUsers[2]}] : n \in 0..MaxListLen }

NotCreated == [pc |-> "idle", usernames |-> <<>>, chunkSize |-> 0, chunks |-> <<>>]

NoChunks == created = NotCreated

\* A BatchOperation is about to be constructed with these usernames and this
\* chunkSize.
ChunksInit ==
    created \in { [NotCreated EXCEPT !.pc = "called", !.usernames = usernames,
                                     !.chunkSize = size] :
                    usernames \in ChunkInputs, size \in 1..MaxSize }

\* this.chunks = this._createChunks(usernames)
CreateChunksReturns ==
    /\ created.pc = "called"
    /\ created' = [created EXCEPT !.pc = "returned",
                                  !.chunks = CreateChunks(created.usernames,
                                                          created.chunkSize)]
    /\ UNCHANGED otherThanChunks

NextChunks == CreateChunksReturns

(***************************************************************************)
(* InputValidator (js/utils/validator.js 11-85).  A string is the sequence *)
(* of its characters.                                                      *)
(***************************************************************************)
Letters == {"a", "A"}
Digits == {"7"}
Whitespace == {" "}
\* The characters strings are made of: letters, a digit, the hyphen, a
\* character no username has, the blank and the comma.
Chars == Letters \cup Digits \cup {"-", "!", " ", ","}

Repeat(c, n) == [i \in 1..n |-> c]

\* String.prototype.trim
RECURSIVE TrimStart(_)
TrimStart(s) ==
    IF s # <<>> /\ Head(s) \in Whitespace THEN TrimStart(Tail(s)) ELSE s

RECURSIVE TrimEnd(_)
TrimEnd(s) ==
    IF s # <<>> /\ s[Len(s)] \in Whitespace
    THEN TrimEnd(SubSeq(s, 1, Len(s) - 1)) ELSE s

Trim(s) == TrimEnd(TrimStart(s))

\* [a-zA-Z0-9]
IsAlnum(c) == c \in Letters \cup Digits

\* CONFIG.VALIDATION.USERNAME.PATTERN.test(s), the pattern being
\* /^[a-zA-Z0-9]([a-zA-Z0-9-]){0,38}$/
PatternTest(s) ==
    /\ Len(s) >= 1
    /\ IsAlnum(s[1])
    /\ Len(s) - 1 <= 38
    /\ \A i \in 2..Len(s) : IsAlnum(s[i]) \/ s[i] = "-"

\* InputValidator.validateUsername, for a string.
ValidateUsername(username) ==
    IF username = <<>>
    THEN FALSE
    ELSE LET trimmed == Trim(username)
         IN  /\ Len(trimmed) >= MIN_LENGTH
             /\ Len(trimmed) <= MAX_LENGTH
             /\ PatternTest(trimmed)

\* The strings validateUsername is called with: every short string, and
\* strings about as long as the longest username.
ValidateInputs ==
    UNION { [1..n -> Chars \ Digits] : n \in 0..MaxStrLen }
    \cup { Repeat("a", n) \o tail :
             n \in (MAX_LENGTH - 2)..(MAX_LENGTH + 1),
             tail \in {<<>>, <<"7">>, <<"-">>, <<"!">>} }

NotValidated == [pc |-> "idle", username |-> <<>>, result |-> FALSE]

NoValidate == validated = NotValidated

ValidateInit ==
    validated \in { [NotValidated EXCEPT !.pc = "called", !.username = username] :
                      username \in ValidateInputs }

\* InputValidator.validateUsername(username) returns.
ValidateUsernameReturns ==
    /\ validated.pc = "called"
    /\ validated' = [validated EXCEPT !.pc = "returned",
                                      !.result = ValidateUsername(validated.username)]
    /\ UNCHANGED otherThanValidate

NextValidate == ValidateUsernameReturns

\* input.split(','): the tokens so far and the token being read.
RECURSIVE SplitFrom(_, _, _)
SplitFrom(s, token, tokens) ==
    IF s = <<>> THEN Append(tokens, token)
    ELSE IF Head(s) = "," THEN SplitFrom(Tail(s), <<>>, Append(tokens, token))
    ELSE SplitFrom(Tail(s), Append(token, Head(s)), tokens)

Split(s) == SplitFrom(s, <<>>, <<>>)

\* .map(username => username.trim()).filter(username => username.length > 0)
TrimmedTokens(input) ==
    LET tokens == Split(input)
        trimmed == [i \in 1..Len(tokens) |-> Trim(tokens[i])]
    IN  SelectSeq(trimmed, LAMBDA t : Len(t) > 0)

Contains(seq, x) == \E i \in 1..Len(seq) : seq[i] = x

\* String.prototype.toLowerCase
LowerChar(c) == IF c = "A" THEN "a" ELSE c
ToLowerCase(s) == [i \in 1..Len(s) |-> LowerChar(s[i])]

\* Mutant of UniqueFrom: a token is dropped when an earlier one is equal
\* after lower-casing.
RECURSIVE UniqueFromIgnoringCase(_, _)
UniqueFromIgnoringCase(seq, unique) ==
    IF seq = <<>> THEN unique
    ELSE IF \E i \in 1..Len(unique) : ToLowerCase(unique[i]) = ToLowerCase(Head(seq))
    THEN UniqueFromIgnoringCase(Tail(seq), unique)
    ELSE UniqueFromIgnoringCase(Tail(seq), Append(unique, Head(seq)))

\* [...new Set(usernames)]: a Set keeps the first insertion of each value.
RECURSIVE UniqueFrom(_, _)
UniqueFrom(seq, unique) ==
    IF seq = <<>> THEN unique
    ELSE IF Contains(unique, Head(seq)) THEN UniqueFrom(Tail(seq), unique)
    ELSE UniqueFrom(Tail(seq), Append(unique, Head(seq)))

\* The result for no usable input (validator.js 37-42, 52-57).
EmptyInputResult ==
    [valid |-> FALSE, usernames |-> <<>>, invalidUsernames |-> <<>>,
     error |-> "EMPTY_INPUT"]

\* InputValidator.parseAndValidateUsernames, for a string.
ParseAndValidateUsernames(input) ==
    IF input = <<>> THEN EmptyInputResult
    ELSE LET usernames == TrimmedTokens(input)
         IN  IF Len(usernames) = 0 THEN EmptyInputResult
             ELSE LET uniqueUsernames == UniqueFrom(usernames, <<>>)
                      invalidUsernames ==
                          SelectSeq(uniqueUsernames, LAMBDA u : ~ValidateUsername(u))
                      isValid == Len(invalidUsernames) = 0
                  IN  [valid |-> isValid,
                       usernames |-> uniqueUsernames,
                       invalidUsernames |-> invalidUsernames,
                       error |-> IF isValid THEN "NONE" ELSE "INVALID_USERNAME"]

\* The queries parseAndValidateUsernames is called with.
Queries == UNION { [1..n -> Chars \ Digits] : n \in 0..MaxQueryLen }

NotParsed == [pc |-> "idle", input |-> <<>>, result |-> EmptyInputResult]

NoParse == parsed = NotParsed

ParseInit ==
    parsed \in { [NotParsed EXCEPT !.pc = "called", !.input = input] :
                   input \in Queries }

\* InputValidator.parseAndValidateUsernames(input) returns.
ParseAndValidateReturns ==
    /\ parsed.pc = "called"
    /\ parsed' = [parsed EXCEPT !.pc = "returned",
                                !.result = ParseAndValidateUsernames(parsed.input)]
    /\ UNCHANGED otherThanParse

NextParse == ParseAndValidateReturns

(***************************************************************************)
(* GitHubUserFinderApp (js/app.js 20-130): searchUsers and cancelSearch on *)
(* the app's own BatchProcessor.                                           *)
(***************************************************************************)
\* The inputs of searchUsers: nothing, one username, two usernames, a
\* username given twice, and valid usernames mixed with a blank and an
\* invalid token.
SearchInputs ==
    { <<>>,
      <<"a">>,
      <<"a", ",", "A">>,
      <<"a", ",", " ", "a">>,
      <<"a", ",", "!">>,
      <<"a", ",", " ", ",", "!", ",", "A">> }

\* constructor: this.state
AppState ==
    [isProcessing |-> FALSE, error |-> "NONE",
     input |-> <<>>, outcome |-> "none",
     searched |-> [r \in RunIds |-> <<>>],
     userCards |-> <<>>, currentResults |-> <<>>]

\* _clearResults: the cards are removed; state.currentResults is not touched.
ClearResults(a) == [a EXCEPT !.userCards = <<>>]

\* _handleUserResult, the onResult callback of every search: a card is
\* rendered for the result and the result is pushed to state.currentResults
\* (the results grid exists once init() has run).
HandleUserResult(a, result) ==
    [a EXCEPT !.userCards = Append(@, result), !.currentResults = Append(@, result)]

RECURSIVE HandleUserResults(_, _)
HandleUserResults(a, rs) ==
    IF rs = <<>> THEN a
    ELSE HandleUserResults(HandleUserResult(a, Head(rs)), Tail(rs))

\* The results run r hands to onResult in this step.
Delivered(r) ==
    SubSeq(op'[r].allResults, Len(op[r].allResults) + 1, Len(op'[r].allResults))

NoApp == app = AppState

AppInit == BatchInit /\ app = AppState

\* searchUsers(input): the whole call when it returns without a batch run, or
\* up to await this.batchProcessor.processUsers(...).  app.input and
\* app.outcome record the last call and how it went, app.searched the input
\* of the search behind each run.
SearchUsers(r, input) ==
    /\ MicrotasksDone
    /\ NextRun(r)
    /\ LET validation == ParseAndValidateUsernames(input)
           called == [app EXCEPT !.input = input]
       IN  IF app.isProcessing
           THEN /\ app' = [called EXCEPT !.outcome = "ignored"]
                /\ UNCHANGED batchVars
           ELSE IF ~validation.valid
           THEN /\ app' = [called EXCEPT !.outcome = "refused",
                                         !.error = validation.error,
                                         !.isProcessing = FALSE]
                /\ UNCHANGED batchVars
           ELSE IF isProcessing
           THEN /\ app' = [ClearResults(called) EXCEPT !.outcome = "failed",
                                         !.error = "BATCH_ERROR",
                                         !.isProcessing = FALSE]
                /\ op' = [op EXCEPT ![r].pc = "alreadyRunning"]
                /\ UNCHANGED <<chunkSize, isProcessing, currentOperation,
                               results, lookup>>
           ELSE /\ app' = [ClearResults(called) EXCEPT !.outcome = "started",
                                         !.error = "NONE",
                                         !.isProcessing = TRUE,
                                         !.searched[r] = input]
                /\ ProcessUsersCall(r, validation.usernames)
    /\ UNCHANGED otherThanApp

\* cancelSearch()
CancelSearch ==
    /\ MicrotasksDone
    /\ app.isProcessing
    /\ app' = [app EXCEPT !.isProcessing = FALSE]
    /\ IF currentOperation # 0 THEN CancelCall ELSE UNCHANGED batchVars
    /\ UNCHANGED otherThanApp

\* processUsers of run r returns and searchUsers resumes: _finalizeSearch,
\* then the finally block.
SearchReturns(r) ==
    /\ ProcessUsersResumes(r)
    /\ app' = [app EXCEPT !.isProcessing = FALSE]
    /\ UNCHANGED otherThanApp

\* The last pending lookup of the awaited chunk of a search fulfils: the
\* results of the chunk go through _handleUserResult.
SearchChunkFulfilled(r, p, outcome) ==
    /\ ChunkFulfilledCall(r, p, outcome)
    /\ app' = HandleUserResults(app, Delivered(r))
    /\ UNCHANGED otherThanAppLookup

\* A lookup of the awaited chunk of a search rejects: the error results of
\* the chunk go through _handleUserResult.
SearchChunkRejected(r, p) ==
    /\ ChunkRejectedCall(r, p)
    /\ app' = HandleUserResults(app, Delivered(r))
    /\ UNCHANGED otherThanAppLookup

NextApp ==
    \/ \E r \in RunIds, input \in SearchInputs : SearchUsers(r, input)
    \/ CancelSearch
    \/ \E r \in RunIds, p \in Positions, outcome \in FulfilledOutcomes :
           LookupFulfilled(r, p, outcome)
    \/ \E r \in RunIds, p \in Positions, outcome \in FulfilledOutcomes :
           SearchChunkFulfilled(r, p, outcome)
    \/ \E r \in RunIds, p \in Positions : SearchChunkRejected(r, p)
    \/ \E r \in RunIds, p \in Positions : AbandonedSettled(r, p)
    \/ \E r \in RunIds : DelayElapsed(r)
    \/ \E r \in RunIds : SearchReturns(r)

(***************************************************************************)
(* GitHubApiService.fetchUser (js/services/github-api.js 12-87, 165-199):  *)
(* the calls made on one service instance; they may overlap.               *)
(***************************************************************************)
CallIds == 1..MaxCalls

\* null, for a number
Null == -1

\* A string that is not well-formed UTF-16: a lone surrogate.
LoneSurrogate == <<"\\uD800">>

\* The usernames fetchUser is called with: two that differ in case only, and
\* the lone surrogate.
FetchUsernames == { <<"a">>, <<"A">>, LoneSurrogate }

\* encodeURIComponent(username) throws URIError for a lone surrogate.
EncodeThrows(username) == \E i \in 1..Len(username) : username[i] = LoneSurrogate[1]

\* The status codes of a response.
Statuses == {200, 403, 404, 500}

\* The X-RateLimit-Remaining, -Reset (s) and -Limit headers of a response;
\* Null when the header is absent.
Headers == [remaining : {Null, 0}, reset : {Null, 2, 7}, limit : {Null, 60}]

\* Date.now(), in ms
Times == {500, 3000}

\* The parsed bodies of a 200 response: the profile as it is at that time.
Bodies == {1, 2}

\* A response without rate-limit headers.
NoHeaders == [remaining |-> Null, reset |-> Null, limit |-> Null]

\* constructor: this.rateLimitInfo
NoRateLimitInfo == [remaining |-> Null, resetTime |-> Null, limit |-> Null]

\* Mutant of UpdateRateLimitInfo: a field whose header is absent is set to null.
UpdateRateLimitInfoCleared(info, headers) ==
    [remaining |-> headers.remaining,
     resetTime |-> IF headers.reset # Null THEN headers.reset * 1000 ELSE Null,
     limit |-> headers.limit]

\* _updateRateLimitInfo(response)
UpdateRateLimitInfo(info, headers) ==
    [remaining |-> IF headers.remaining # Null THEN headers.remaining ELSE info.remaining,
     resetTime |-> IF headers.reset # Null THEN headers.reset * 1000 ELSE info.resetTime,
     limit |-> IF headers.limit # Null THEN headers.limit ELSE info.limit]

\* Mutant of CalculateRetryDelay: the time to the reset is not capped.
CalculateRetryDelayUncapped(info, now) ==
    IF info.resetTime # Null /\ info.resetTime # 0 /\ info.resetTime > now
    THEN info.resetTime - now
    ELSE RETRY_DELAY

\* _calculateRetryDelay()
CalculateRetryDelay(info, now) ==
    IF info.resetTime # Null /\ info.resetTime # 0 /\ info.resetTime > now
    THEN Min(info.resetTime - now, RETRY_DELAY)
    ELSE RETRY_DELAY

\* A result of fetchUser with the parsed body of the response.
SuccessWith(username, data) ==
    [success |-> TRUE, username |-> username, errorType |-> "NONE",
     retryAfter |-> 0, data |-> data]

\* A failure result of fetchUser.
FailureWith(username, kind, retryAfter) ==
    [success |-> FALSE, username |-> username, errorType |-> kind,
     retryAfter |-> retryAfter, data |-> 0]

NoResult == FailureWith(<<>>, "NULL", 0)

\* A call of fetchUser: where it is, how its HTTP call went (status 0: no
\* response; the headers of the response), whether it issued a network
\* request, and what it returned.
\* known is the success fetchUser had returned for the same lower-cased
\* username when the call was made.
NotCalled ==
    [pc |-> "idle", username |-> <<>>, requested |-> FALSE, status |-> 0,
     headers |-> NoHeaders, parsed |-> FALSE, result |-> NoResult, known |-> NoResult]

\* The successes returned so far for the lower-cased username.
KnownSuccesses(username) ==
    { call[c].result : c \in { d \in CallIds :
          /\ call[d].pc = "returned"
          /\ call[d].result.success
          /\ ToLowerCase(call[d].username) = ToLowerCase(username) } }

\* isRateLimited has not been called.
NotAsked == [pc |-> "idle", now |-> 0, returned |-> FALSE]

ServiceInit ==
    /\ rateLimitInfo = NoRateLimitInfo
    /\ call = [c \in CallIds |-> NotCalled]
    /\ rateLimited = NotAsked

\* The calls are numbered in the order they are made.
NextCall(c) == call[c].pc = "idle" /\ \A d \in CallIds : d < c => call[d].pc # "idle"

\* fetchUser(username) is called: up to await fetch(url), or to the exception
\* of encodeURIComponent, which is outside the try.
FetchUser(c, username) ==
    /\ NextCall(c)
    /\ \E known \in IF KnownSuccesses(username) = {} THEN {NoResult}
                     ELSE KnownSuccesses(username) :
           call' = [call EXCEPT ![c] =
                       IF EncodeThrows(username)
                       THEN [NotCalled EXCEPT !.pc = "rejected", !.username = username,
                                              !.known = known]
                       ELSE [NotCalled EXCEPT !.pc = "fetch", !.username = username,
                                              !.requested = TRUE, !.known = known]]
    /\ UNCHANGED rateLimitInfo
    /\ UNCHANGED rateLimited
    /\ UNCHANGED otherThanService

\* The response arrives: _updateRateLimitInfo, then the result by status, or
\* await response.json().
FetchResolves(c, status, headers, now) ==
    /\ call[c].pc = "fetch"
    /\ LET info == UpdateRateLimitInfo(rateLimitInfo, headers)
           username == call[c].username
           responded == [call[c] EXCEPT !.status = status, !.headers = headers]
       IN  /\ rateLimitInfo' = info
           /\ call' = [call EXCEPT ![c] =
                  IF status >= 200 /\ status <= 299
                  THEN [responded EXCEPT !.pc = "json"]
                  ELSE IF status = 404
                  THEN [responded EXCEPT !.pc = "returned",
                            !.result = FailureWith(username, "NOT_FOUND", 0)]
                  ELSE IF status = 403
                  THEN [responded EXCEPT !.pc = "returned",
                            !.result = FailureWith(username, "RATE_LIMITED",
                                                   CalculateRetryDelay(info, now))]
                  ELSE [responded EXCEPT !.pc = "returned",
                            !.result = FailureWith(username, "API_ERROR", 0)]]
    /\ UNCHANGED rateLimited
    /\ UNCHANGED otherThanService

\* fetch(url) rejects: the catch.
FetchRejects(c) ==
    /\ call[c].pc = "fetch"
    /\ call' = [call EXCEPT ![c].pc = "returned",
                            ![c].result = FailureWith(call[c].username, "NETWORK_ERROR", 0)]
    /\ UNCHANGED rateLimitInfo
    /\ UNCHANGED rateLimited
    /\ UNCHANGED otherThanService

\* response.json() gives the parsed body.
JsonResolves(c, body) ==
    /\ call[c].pc = "json"
    /\ call' = [call EXCEPT ![c].pc = "returned",
                            ![c].parsed = TRUE,
                            ![c].result = SuccessWith(call[c].username, body)]
    /\ UNCHANGED rateLimitInfo
    /\ UNCHANGED rateLimited
    /\ UNCHANGED otherThanService

\* response.json() rejects (the body does not arrive or is no JSON): the catch.
JsonRejects(c) ==
    /\ call[c].pc = "json"
    /\ call' = [call EXCEPT ![c].pc = "returned",
                            ![c].result = FailureWith(call[c].username, "NETWORK_ERROR", 0)]
    /\ UNCHANGED rateLimitInfo
    /\ UNCHANGED rateLimited
    /\ UNCHANGED otherThanService

NextService ==
    \/ \E c \in CallIds, username \in FetchUsernames : FetchUser(c, username)
    \/ \E c \in CallIds, status \in Statuses, headers \in Headers, now \in Times :
           FetchResolves(c, status, headers, now)
    \/ \E c \in CallIds : FetchRejects(c)
    \/ \E c \in CallIds, body \in Bodies : JsonResolves(c, body)
    \/ \E c \in CallIds : JsonRejects(c)

NoService == ServiceInit

(***************************************************************************)
(* GitHubApiService.isRateLimited (github-api.js 151-158): one call, on a  *)
(* service that holds any rate-limit info its responses can have left.     *)
(***************************************************************************)
\* The rate-limit infos of a service: each field null or taken from a header
\* (remaining 0, 1 or 59 of a limit of 60 or 5000; reset at 2 s or 7 s).
RateLimitInfos ==
    [remaining : {Null, 0, 1, 59}, resetTime : {Null, 2000, 7000}, limit : {Null, 60, 5000}]

\* Date.now() at the call, in ms: before, at and after the reset at 2 s.
CallTimes == {500, 2000, 3000}

\* isRateLimited(): !remaining and !resetTime are true for null and for 0.
IsRateLimited(info, now) ==
    IF info.remaining = Null \/ info.remaining = 0
          \/ info.resetTime = Null \/ info.resetTime = 0
    THEN FALSE
    ELSE info.remaining <= 0 /\ now < info.resetTime

RateLimitInit ==
    /\ rateLimitInfo \in RateLimitInfos
    /\ call = [c \in CallIds |-> NotCalled]
    /\ rateLimited = NotAsked

\* isRateLimited() is called at the time now and returns.
IsRateLimitedReturns(now) ==
    /\ rateLimited.pc = "idle"
    /\ rateLimited' = [pc |-> "returned", now |-> now,
                       returned |-> IsRateLimited(rateLimitInfo, now)]
    /\ UNCHANGED <<rateLimitInfo, call>>
    /\ UNCHANGED otherThanService

NextRateLimit == \E now \in CallTimes : IsRateLimitedReturns(now)

(***************************************************************************)
(* GitHubApiService of the bundled app (the repository's generated app.js, *)
(* class GitHubApiService): fetchUser with its cache, and clearCache.      *)
(***************************************************************************)
CachedCallIds == 1..MaxCachedCalls

\* The usernames the bundled fetchUser is called with: two that differ in
\* case only, and a third.
CachedUsernames == { <<"a">>, <<"A">>, <<"7">> }

\* cacheKey = username.toLowerCase()
CacheKey(username) == ToLowerCase(username)

CacheKeys == { CacheKey(username) : username \in CachedUsernames }

\* { success: true, data: userData }: it carries no username.
CachedSuccess(data) ==
    [success |-> TRUE, data |-> data, username |-> <<>>, error |-> "NONE"]

\* The result of the catch: { success: false, username, error: error.message }.
CatchResult(username, error) ==
    [success |-> FALSE, data |-> 0, username |-> username, error |-> error]

\* No entry under a key, no result of a call.
NoEntry == CatchResult(<<>>, "NULL")

\* The message of the Error thrown for a response that is not ok.
ErrorOf(status) == IF status = 403 THEN "Rate limit exceeded" ELSE "HTTP"

NoCachedCall ==
    [pc |-> "idle", username |-> <<>>, hit |-> FALSE, status |-> 0, result |-> NoEntry]

BundleInit ==
    /\ cache = [k \in CacheKeys |-> NoEntry]
    /\ cachedCall = [c \in CachedCallIds |-> NoCachedCall]

\* The calls are numbered in the order they are made.
NextCachedCall(c) ==
    cachedCall[c].pc = "idle" /\ \A d \in CachedCallIds : d < c => cachedCall[d].pc # "idle"

\* Mutant of AfterCatch: the failure is cached like a success.
AfterCatchCached(entries, key, result) == [entries EXCEPT ![key] = result]

\* The cache after the catch built its result: the catch does not touch it.
AfterCatch(entries, key, result) == entries

\* this.cache.set(cacheKey, result)
CacheSet(entries, key, result) == [entries EXCEPT ![key] = result]

\* fetchUser(username) is called: a cache hit returns the entry, a miss runs
\* up to await fetch(...).
CachedFetchUser(c, username) ==
    /\ NextCachedCall(c)
    /\ cachedCall' = [cachedCall EXCEPT ![c] =
           IF cache[CacheKey(username)] # NoEntry
           THEN [NoCachedCall EXCEPT !.pc = "returned", !.username = username,
                                     !.hit = TRUE, !.result = cache[CacheKey(username)]]
           ELSE [NoCachedCall EXCEPT !.pc = "fetch", !.username = username]]
    /\ UNCHANGED cache
    /\ UNCHANGED otherThanBundle

\* The response arrives: not ok throws into the catch, ok goes on to
\* await response.json().
CachedFetchResolves(c, status) ==
    /\ cachedCall[c].pc = "fetch"
    /\ LET username == cachedCall[c].username
           result == CatchResult(username, ErrorOf(status))
       IN  IF status >= 200 /\ status <= 299
           THEN /\ cachedCall' = [cachedCall EXCEPT ![c].pc = "json", ![c].status = status]
                /\ UNCHANGED cache
           ELSE /\ cachedCall' = [cachedCall EXCEPT ![c].pc = "returned", ![c].status = status,
                                            ![c].result = result]
                /\ cache' = AfterCatch(cache, CacheKey(username), result)
    /\ UNCHANGED otherThanBundle

\* fetch(...) rejects: the catch.
CachedFetchRejects(c) ==
    /\ cachedCall[c].pc = "fetch"
    /\ LET result == CatchResult(cachedCall[c].username, "EXCEPTION")
       IN  /\ cachedCall' = [cachedCall EXCEPT ![c].pc = "returned", ![c].result = result]
           /\ cache' = AfterCatch(cache, CacheKey(cachedCall[c].username), result)
    /\ UNCHANGED otherThanBundle

\* response.json() gives the parsed body: the result is cached and returned.
CachedJsonResolves(c, body) ==
    /\ cachedCall[c].pc = "json"
    /\ cachedCall' = [cachedCall EXCEPT ![c].pc = "returned", ![c].result = CachedSuccess(body)]
    /\ cache' = CacheSet(cache, CacheKey(cachedCall[c].username), CachedSuccess(body))
    /\ UNCHANGED otherThanBundle

\* response.json() rejects: the catch.
CachedJsonRejects(c) ==
    /\ cachedCall[c].pc = "json"
    /\ LET result == CatchResult(cachedCall[c].username, "EXCEPTION")
       IN  /\ cachedCall' = [cachedCall EXCEPT ![c].pc = "returned", ![c].result = result]
           /\ cache' = AfterCatch(cache, CacheKey(cachedCall[c].username), result)
    /\ UNCHANGED otherThanBundle

\* clearCache()
ClearCache ==
    /\ \E k \in CacheKeys : cache[k] # NoEntry
    /\ cache' = [k \in CacheKeys |-> NoEntry]
    /\ UNCHANGED cachedCall
    /\ UNCHANGED otherThanBundle

NextBundle ==
    \/ \E c \in CachedCallIds, username \in CachedUsernames : CachedFetchUser(c, username)
    \/ \E c \in CachedCallIds, status \in Statuses : CachedFetchResolves(c, status)
    \/ \E c \in CachedCallIds : CachedFetchRejects(c)
    \/ \E c \in CachedCallIds, body \in Bodies : CachedJsonResolves(c, body)
    \/ \E c \in CachedCallIds : CachedJsonRejects(c)
    \/ ClearCache

NoBundle == BundleInit

(***************************************************************************)
(* The specifications.                                                     *)
(***************************************************************************)
\* No BatchProcessor has been constructed.
NoBatch ==
    /\ chunkSize = 0
    /\ isProcessing = FALSE
    /\ currentOperation = 0
    /\ results = {}
    /\ op = [r \in RunIds |-> NoOperation]
    /\ lookup = [r \in RunIds |-> [p \in Positions |-> "none"]]

\* The parts of the program a specification is not about have not been used.
Unused(parts) ==
    /\ "batch" \in parts => NoBatch
    /\ "chunks" \in parts => NoChunks
    /\ "validate" \in parts => NoValidate
    /\ "parse" \in parts => NoParse
    /\ "app" \in parts => NoApp
    /\ "service" \in parts => NoService
    /\ "bundle" \in parts => NoBundle

Init == BatchInit /\ RetryInit /\ FetchInit
    /\ Unused({"chunks", "validate", "parse", "app", "service",
              "bundle"})

\* One BatchProcessor and the runs made on it.
Spec == Init /\ [][Next]_vars

\* One BatchProcessor and the runs made on it, with callbacks that may throw.
SpecThrow == Init /\ [][NextThrow]_vars

InitRetry == RetryInit /\ FetchInit
    /\ Unused({"batch", "chunks", "validate", "parse", "app", "service",
              "bundle"})

\* One BatchProcessor, its runs and their lookups attempt by attempt, with
\* the network and the timers making progress.
SpecLive == Init /\ [][NextLive]_vars /\ LiveFairness

\* One invocation of fetchUserWithRetry.
SpecRetry == InitRetry /\ [][NextRetry]_vars

InitChunks == ChunksInit /\ RetryInit /\ FetchInit
    /\ Unused({"batch", "validate", "parse", "app", "service",
              "bundle"})

\* One call of _createChunks.
SpecChunks == InitChunks /\ [][NextChunks]_vars

InitValidate == ValidateInit /\ RetryInit /\ FetchInit
    /\ Unused({"batch", "chunks", "parse", "app", "service",
              "bundle"})

\* One call of InputValidator.validateUsername.
SpecValidate == InitValidate /\ [][NextValidate]_vars

InitParse == ParseInit /\ RetryInit /\ FetchInit
    /\ Unused({"batch", "chunks", "validate", "app", "service",
              "bundle"})

\* One call of InputValidator.parseAndValidateUsernames.
SpecParse == InitParse /\ [][NextParse]_vars

InitApp == AppInit /\ RetryInit /\ FetchInit
    /\ Unused({"chunks", "validate", "parse", "service",
              "bundle"})

\* One GitHubUserFinderApp and the searches made on it.
SpecApp == InitApp /\ [][NextApp]_vars

InitService ==
    ServiceInit /\ RetryInit /\ FetchInit
        /\ Unused({"batch", "chunks", "validate", "parse", "app",
              "bundle"})

\* One GitHubApiService and the fetchUser calls made on it.
SpecService == InitService /\ [][NextService]_vars

InitRateLimit ==
    RateLimitInit /\ RetryInit /\ FetchInit
        /\ Unused({"batch", "chunks", "validate", "parse", "app",
              "bundle"})

\* One call of isRateLimited.
SpecRateLimit == InitRateLimit /\ [][NextRateLimit]_vars

InitBundle ==
    BundleInit /\ RetryInit /\ FetchInit
        /\ Unused({"batch", "chunks", "validate", "parse", "app", "service"})

\* The GitHubApiService of the bundled app and the fetchUser calls made on it.
SpecBundle == InitBundle /\ [][NextBundle]_vars

(***************************************************************************)
(* What a run did, read from its log.                                      *)
(***************************************************************************)
CallsOf(o, name) == SelectSeq(o.log, LAMBDA e : e.call = name)

\* The results handed to onResult, in order.
Emitted(o) == [i \in 1..Len(CallsOf(o, "onResult")) |-> CallsOf(o, "onResult")[i].arg]

\* The snapshots handed to onProgress, in order.
Snapshots(o) == [i \in 1..Len(CallsOf(o, "onProgress")) |-> CallsOf(o, "onProgress")[i].arg]

Usernames(rs) == [i \in 1..Len(rs) |-> rs[i].username]

Count(seq, x) == Cardinality({ i \in 1..Len(seq) : seq[i] = x })

UserSet == { AllUsers[i] : i \in 1..Len(AllUsers) }

\* The processUsers call of run r was accepted and has not returned.
Executing(r) == op[r].pc \in {"awaitChunk", "delay", "finishing"}

\* The identifiers of the first k chunks.
FirstChunks(o, k) == SubSeq(o.usernames, 1, ChunkStart(o.chunks, k))

CeilDiv(n, c) == (n + c - 1) \div c

\* The number of onResult calls among the first i - 1 entries of the log.
ResultsBefore(o, i) ==
    Cardinality({ j \in 1..(i - 1) : o.log[j].call = "onResult" })

\* The position of an identifier in a list without repetitions.
PositionOf(o, u) == CHOOSE p \in 1..Len(o.usernames) : o.usernames[p] = u

(***************************************************************************)
(* The claims.                                                             *)
(***************************************************************************)

\* C1: at most one BatchOperation is executing at any time on one
\* BatchProcessor: no processUsers call is accepted while an earlier call has
\* not returned.
C1_AtMostOneExecuting ==
    Cardinality({ r \in RunIds : Executing(r) }) <= 1

\* C2: a run that is not cancelled has, when execute returns, called onResult
\* exactly N times, once for each input identifier; no run ever calls onResult
\* more often for an identifier than the input names it.
C2_OneResultPerIdentifier ==
    \A r \in RunIds :
        LET o == op[r]
            names == Usernames(Emitted(o))
        IN  /\ \A u \in UserSet : Count(names, u) <= Count(o.usernames, u)
            /\ (o.pc = "finishing" /\ ~o.cancelled) =>
                  /\ Len(names) = Len(o.usernames)
                  /\ \A u \in UserSet : Count(names, u) = Count(o.usernames, u)

\* A run over three identifiers in chunks of two has finished, not cancelled,
\* with a chunk whose fan-out failed and a chunk that succeeded.
C2_Witness ==
    \E r \in RunIds :
        /\ op[r].pc = "finishing" /\ ~op[r].cancelled
        /\ Len(op[r].usernames) = 3 /\ op[r].chunkSize = 2
        /\ \E i \in 1..Len(Emitted(op[r])) :
               Emitted(op[r])[i].errorType = "PROCESSING_ERROR"
        /\ \E i \in 1..Len(Emitted(op[r])) : Emitted(op[r])[i].success

\* C3: a run that is not cancelled has, when execute returns, called
\* onProgress exactly ceil(N/C) + 1 times: snapshot k before chunk k, then the
\* final snapshot (one snapshot when N = 0).
C3_ProgressCount ==
    \A r \in RunIds :
        LET o == op[r]
            snaps == Snapshots(o)
            k == CeilDiv(Len(o.usernames), o.chunkSize)
        IN  (o.pc = "finishing" /\ ~o.cancelled) =>
                /\ Len(snaps) = k + 1
                /\ \A i \in 1..k : snaps[i].currentChunk = i /\ ~snaps[i].isComplete
                /\ snaps[k + 1].isComplete

\* A run over three identifiers in chunks of two has finished, not cancelled,
\* with three snapshots; and so has a run over no identifier, with one.
C3_Witness ==
    \E r \in RunIds :
        /\ op[r].pc = "finishing" /\ ~op[r].cancelled
        /\ Len(op[r].usernames) = 3 /\ op[r].chunkSize = 2
        /\ Len(Snapshots(op[r])) = 3

C6_FanInBarrier ==
    \A r \in RunIds :
        Executing(r) =>
            \A p, q \in 1..Len(op[r].usernames) :
                (lookup[r][p] = "pending" /\ lookup[r][q] = "pending") =>
                    ChunkOf(op[r], p) = ChunkOf(op[r], q)

\* C7: every onResult call for an identifier of chunk k comes before the
\* snapshot of chunk k+1 and before every lookup of chunk k+1: when the
\* snapshot of a chunk is emitted or a lookup of a chunk is issued, the results
\* of all identifiers of the earlier chunks have been handed to onResult.
C7_ChunkOrder ==
    \A r \in RunIds :
        LET o == op[r]
        IN  \A i \in 1..Len(o.log) :
                /\ (o.log[i].call = "onProgress" /\ ~o.log[i].arg.isComplete) =>
                      /\ ResultsBefore(o, i) = ChunkStart(o.chunks, o.log[i].arg.currentChunk - 1)
                      /\ SubSeq(Usernames(Emitted(o)), 1, ResultsBefore(o, i))
                             = FirstChunks(o, o.log[i].arg.currentChunk - 1)
                /\ o.log[i].call = "fetchUserWithRetry" =>
                      ResultsBefore(o, i)
                          = ChunkStart(o.chunks, ChunkOf(o, PositionOf(o, o.log[i].arg)))

\* The lookups of a second chunk have been issued after the two results of
\* the first.
C7_Witness ==
    \E r \in RunIds :
        /\ op[r].pc = "awaitChunk" /\ op[r].chunkIndex = 1
        /\ op[r].chunkSize = 2
        /\ Len(Emitted(op[r])) = 2

C9_TerminalNotRetried ==
    \A i \in 1..Len(retry.attempts) :
        retry.attempts[i].errorType \in {"NOT_FOUND", "API_ERROR"} =>
            /\ i = Len(retry.attempts)
            /\ retry.calls = i
            /\ retry.pc = "returned"
            /\ retry.returned = retry.attempts[i]
            /\ Len(retry.waits) = i - 1

\* The second attempt, made after a retried failure, returned API_ERROR.
C9_Witness ==
    /\ retry.pc = "returned"
    /\ retry.maxRetries = 3
    /\ Len(retry.attempts) = 2
    /\ retry.attempts[1].errorType \in {"RATE_LIMITED", "NETWORK_ERROR"}
    /\ retry.attempts[2].errorType = "API_ERROR"

\* C10: with maxRetries = M >= 1 the number of fetchUser calls is at least 1
\* and at most M in every execution; when every attempt failed with
\* RATE_LIMITED or NETWORK_ERROR, the failure is returned after exactly M calls
\* and M - 1 waits, and it is the failure of the last attempt.
C10_RetriedUpToMax ==
    (retry.pc # "idle" /\ retry.maxRetries >= 1) =>
        /\ retry.calls \in 1..retry.maxRetries
        /\ ( /\ retry.pc = "returned"
             /\ \A i \in 1..Len(retry.attempts) :
                    retry.attempts[i].errorType \in {"RATE_LIMITED", "NETWORK_ERROR"} )
           => /\ retry.calls = retry.maxRetries
              /\ Len(retry.attempts) = retry.maxRetries
              /\ Len(retry.waits) = retry.maxRetries - 1
              /\ retry.returned = retry.attempts[retry.maxRetries]

\* Three attempts failed, with RATE_LIMITED and with NETWORK_ERROR, and the
\* failure was returned.
C10_Witness ==
    /\ retry.pc = "returned"
    /\ retry.maxRetries = 3
    /\ retry.calls = 3
    /\ ~retry.returned.success
    /\ \E i, j \in 1..3 : /\ retry.attempts[i].errorType = "RATE_LIMITED"
                          /\ retry.attempts[j].errorType = "NETWORK_ERROR"

\* C11: fetchUserWithRetry with maxRetries >= 1 returns the first success
\* observed, after which no attempt is made, or, when no attempt succeeded, the
\* failure of the last attempt that was made.
C11_FirstSuccessOrLastFailure ==
    retry.maxRetries >= 1 =>
        LET n == Len(retry.attempts)
        IN  /\ \A i \in 1..n :
                   retry.attempts[i].success =>
                       /\ i = n
                       /\ retry.calls = i
                       /\ retry.pc = "returned"
                       /\ retry.returned = retry.attempts[i]
            /\ retry.pc = "returned" =>
                   /\ n >= 1 /\ retry.calls = n
                   /\ retry.returned = retry.attempts[n]
                   /\ \A i \in 1..(n - 1) : ~retry.attempts[i].success

\* A success was returned on the third attempt after two retried failures;
\* and a failure was returned that differs from the first failure observed.
C11_Witness ==
    /\ retry.pc = "returned"
    /\ retry.maxRetries = 3
    /\ Len(retry.attempts) >= 2
    /\ ~retry.attempts[1].success
    /\ retry.returned # retry.attempts[1]

\* The chunks of run r whose fan-out failed: a lookup of the chunk rejected
\* while execute awaited it.
FailedChunks(r) ==
    { k \in 0..(Len(op[r].chunks) - 1) :
        \E p \in ChunkPositions(op[r], k) : lookup[r][p] = "REJECTED" }

\* The number of failures among results.
Failures(rs) == Cardinality({ i \in 1..Len(rs) : ~rs[i].success })

\* C12: when the fan-out of chunk k has failed as a whole, onResult has been
\* handed one PROCESSING_ERROR failure for every identifier of chunk k, in the
\* place of the chunk's results; the same failures are in the list execute
\* returns and in the counters; and, unless the run was cancelled by then, the
\* run has gone on to the following chunk and issued its lookups.
C12_FailedChunkReported ==
    \A r \in RunIds :
        Executing(r) =>
            \A k \in FailedChunks(r) :
                LET o == op[r]
                    from == ChunkStart(o.chunks, k)
                    chunk == o.chunks[k + 1]
                    errors == [j \in 1..Len(chunk) |->
                                  FailureResult(chunk[j], "PROCESSING_ERROR")]
                IN  /\ Len(Emitted(o)) >= from + Len(chunk)
                    /\ SubSeq(Emitted(o), from + 1, from + Len(chunk)) = errors
                    /\ SubSeq(o.allResults, from + 1, from + Len(chunk)) = errors
                    /\ o.stats.processed = Len(o.allResults)
                    /\ o.stats.failed = Failures(o.allResults)
                    /\ o.stats.failed >= Len(chunk)
                    /\ (k + 1 < Len(o.chunks)
                          /\ (o.cancelPoint = <<>> \/ o.cancelPoint[2] > k)) =>
                           /\ o.chunkIndex > k
                           /\ Len(CallsOf(o, "fetchUserWithRetry"))
                                  >= ChunkStart(o.chunks, k + 2)

\* A run over three identifiers in chunks of two whose first chunk failed has
\* finished with two PROCESSING_ERROR failures and the result of the second
\* chunk, a success.
C12_Witness ==
    \E r \in RunIds :
        /\ op[r].pc = "finishing" /\ ~op[r].cancelled
        /\ Len(op[r].usernames) = 3 /\ op[r].chunkSize = 2
        /\ FailedChunks(r) = {0}
        /\ Len(op[r].allResults) = 3
        /\ op[r].allResults[3].success
        /\ op[r].stats.failed = 2

\* execute of run r has emitted its final progress snapshot as its last
\* callback and has returned to processUsers; a run that was not cancelled has
\* processed every chunk and holds a result for every identifier.
FinalSnapshotEmitted(r) ==
    LET o == op[r]
    IN  /\ o.pc = "finishing"
        /\ Len(o.log) > 0
        /\ o.log[Len(o.log)].call = "onProgress"
        /\ o.log[Len(o.log)].arg.isComplete
        /\ ~o.cancelled =>
               /\ o.chunkIndex = Len(o.chunks)
               /\ Usernames(o.allResults) = o.usernames

\* C13: when every network call settles and every timer fires, every run that
\* was accepted eventually emits its final progress snapshot and then returns,
\* whatever its lookups give (success, NOT_FOUND, RATE_LIMITED, NETWORK_ERROR,
\* API_ERROR after the retries of fetchUserWithRetry, or a rejection); a run
\* that is not cancelled processes every chunk on the way.
C13_RunTerminates ==
    \A r \in RunIds :
        /\ Executing(r) ~> FinalSnapshotEmitted(r)
        /\ FinalSnapshotEmitted(r) ~> (op[r].pc = "returned")

\* A run over three identifiers in chunks of two has ended, not cancelled: a
\* lookup of its first chunk rejected, and the lookup of its second chunk
\* failed with NETWORK_ERROR, which fetchUserWithRetry returns on its last
\* attempt only.
C13_Witness ==
    \E r \in RunIds :
        /\ op[r].pc = "finishing" /\ ~op[r].cancelled
        /\ Len(op[r].usernames) = 3 /\ op[r].chunkSize = 2
        /\ FailedChunks(r) = {0}
        /\ op[r].allResults[3].errorType = "NETWORK_ERROR"

\* C14: a run whose execute has returned has emitted exactly one final
\* progress snapshot, as its last callback: the last entry of its log is the one
\* onProgress call with isComplete = true, and it carries cancelled = true
\* when the run was cancelled, as it was whenever the run stopped before its
\* last chunk; while the run is going on no snapshot has isComplete = true.
C14_OneFinalSnapshot ==
    \A r \in RunIds :
        LET o == op[r]
            snaps == Snapshots(o)
            n == Len(snaps)
        IN  /\ o.pc \in {"awaitChunk", "delay"} =>
                   \A i \in 1..n : ~snaps[i].isComplete
            /\ o.pc = "finishing" =>
                   /\ n >= 1
                   /\ o.log[Len(o.log)] = Call("onProgress", snaps[n])
                   /\ \A i \in 1..n : snaps[i].isComplete <=> i = n
                   /\ snaps[n].cancelled = o.cancelled
                   /\ o.chunkIndex = Len(o.chunks) => snaps[n].isComplete
                   /\ o.chunkIndex < Len(o.chunks) => snaps[n].cancelled

\* A run over three identifiers was cancelled after its first chunk and has
\* ended with a final snapshot after an earlier snapshot and results; and a
\* run has ended after all its chunks.
C14_Witness ==
    \E r \in RunIds :
        /\ op[r].pc = "finishing" /\ op[r].cancelled
        /\ Len(op[r].usernames) = 3
        /\ op[r].chunkIndex < Len(op[r].chunks)
        /\ Len(Snapshots(op[r])) >= 2
        /\ Len(Emitted(op[r])) >= 1

\* The concatenation of chunks, in order.
RECURSIVE Concat(_)
Concat(chunks) ==
    IF chunks = <<>> THEN <<>> ELSE Head(chunks) \o Concat(Tail(chunks))

\* C15: for usernames of length n and chunkSize C >= 1, _createChunks returns
\* ceil(n/C) chunks whose concatenation in order is usernames; every chunk has
\* between 1 and C identifiers, and every chunk but the last has exactly C.
C15_ChunksPartition ==
    created.pc = "returned" =>
        LET n == Len(created.usernames)
            C == created.chunkSize
            chunks == created.chunks
        IN  /\ Len(chunks) = CeilDiv(n, C)
            /\ Concat(chunks) = created.usernames
            /\ \A k \in 1..Len(chunks) : Len(chunks[k]) \in 1..C
            /\ \A k \in 1..(Len(chunks) - 1) : Len(chunks[k]) = C

\* Four identifiers, one of them repeated, were cut into chunks of three: a
\* whole chunk and a shorter last one.
C15_Witness ==
    /\ created.pc = "returned"
    /\ Len(created.usernames) = 4 /\ created.chunkSize = 3
    /\ created.usernames[1] = created.usernames[4]
    /\ Len(created.chunks) = 2
    /\ Len(created.chunks[2]) = 1

\* The rule for a username: 1 to 39 characters, letters, digits and hyphens
\* only, no hyphen at the start or at the end.
WellFormedUsername(s) ==
    /\ Len(s) \in 1..39
    /\ \A i \in 1..Len(s) : IsAlnum(s[i]) \/ s[i] = "-"
    /\ s[1] # "-"
    /\ s[Len(s)] # "-"

\* C16: InputValidator.validateUsername returns true exactly for the strings
\* whose trimmed form is a well-formed username: it returns false for a string
\* with another character, a leading hyphen, a trailing hyphen, length 0 or
\* length above 39.
C16_ValidateUsername ==
    validated.pc = "returned" =>
        (validated.result <=> WellFormedUsername(Trim(validated.username)))

\* The index of the first occurrence of x in seq.
FirstIndex(seq, x) == CHOOSE i \in 1..Len(seq) :
                          seq[i] = x /\ \A j \in 1..(i - 1) : seq[j] # x

\* C17: the usernames parseAndValidateUsernames returns for a comma-separated
\* query are the trimmed non-empty tokens of the query, each once, in the order
\* of their first occurrence; a token is a repetition only of a token equal to
\* it character by character, so tokens that differ in letter case are both
\* kept as written.
C17_UniqueInFirstSeenOrder ==
    parsed.pc = "returned" =>
        LET tokens == TrimmedTokens(parsed.input)
            us == parsed.result.usernames
        IN  /\ \A i, j \in 1..Len(us) : i < j => us[i] # us[j]
            /\ \A k \in 1..Len(tokens) : Contains(us, tokens[k])
            /\ \A i \in 1..Len(us) : Contains(tokens, us[i])
            /\ \A i, j \in 1..Len(us) :
                   i < j => FirstIndex(tokens, us[i]) < FirstIndex(tokens, us[j])

\* The query "a,A,a" was parsed: the repeated token is returned once, and
\* the two tokens that differ in case are both returned.
C17_Witness ==
    /\ parsed.pc = "returned"
    /\ parsed.input = <<"a", ",", "A", ",", "a">>
    /\ parsed.result.usernames = << <<"a">>, <<"A">> >>

\* The valid identifiers of a query: its trimmed non-empty tokens, each once,
\* in input order, that are well-formed usernames.
ValidIdentifiers(input) ==
    SelectSeq(UniqueFrom(TrimmedTokens(input), <<>>), WellFormedUsername)

\* A search whose run is not cancelled ends with one result per valid
\* identifier of its query, in input order, and a final snapshot with
\* processed = total = the number of valid identifiers.
SearchedValidIdentifiers ==
    \A r \in RunIds :
        LET o == op[r]
            valid == ValidIdentifiers(app.searched[r])
            snaps == Snapshots(o)
        IN  /\ Executing(r) => o.usernames = valid
            /\ (o.pc = "finishing" /\ ~o.cancelled) =>
                   /\ Usernames(Emitted(o)) = valid
                   /\ snaps[Len(snaps)].processed = Len(valid)
                   /\ snaps[Len(snaps)].total = Len(valid)

\* C18: a query that has valid tokens among blank and invalid ones is
\* searched: searchUsers does not refuse it, the batch run is over exactly its
\* valid identifiers in input order, one result is streamed per valid
\* identifier, and the final snapshot has processed = total = their number.
C18_MixedQuerySearched ==
    /\ app.outcome = "refused" => ValidIdentifiers(app.input) = <<>>
    /\ SearchedValidIdentifiers

\* C19: on one GitHubApiService, a fetchUser call made after fetchUser has
\* returned a success for a username equal after lower-casing issues no
\* network request and returns that same success.
C19_CachedSuccessReturned ==
    \A c \in CallIds :
        call[c].known # NoResult =>
            /\ ~call[c].requested
            /\ call[c].pc \notin {"fetch", "json"}
            /\ call[c].pc = "returned" => call[c].result = call[c].known

\* The result of a fetchUser call that returned is the one of its HTTP call:
\* success with the parsed body for a 200 whose body parsed, NOT_FOUND for
\* 404, RATE_LIMITED with a positive retry delay for 403, API_ERROR for
\* another status outside 200..299, NETWORK_ERROR when fetch or the reading
\* of the body failed; and it carries the username of the call.
ClassifiedByStatus ==
    \A c \in CallIds :
        LET status == call[c].status
            result == call[c].result
        IN  call[c].pc = "returned" =>
                /\ result.username = call[c].username
                /\ (status = 200 /\ call[c].parsed) =>
                       result.success /\ result.data \in Bodies
                /\ status = 404 => ~result.success /\ result.errorType = "NOT_FOUND"
                /\ status = 403 =>
                       /\ ~result.success /\ result.errorType = "RATE_LIMITED"
                       /\ result.retryAfter > 0
                /\ (status # 0 /\ status \notin 200..299 /\ status \notin {403, 404}) =>
                       ~result.success /\ result.errorType = "API_ERROR"
                /\ (status = 0 \/ (status \in 200..299 /\ ~call[c].parsed)) =>
                       ~result.success /\ result.errorType = "NETWORK_ERROR"

\* C20: the promise of fetchUser never rejects, and the result it is
\* fulfilled with is the one of its HTTP call (200: success with the parsed
\* body, 404: NOT_FOUND, 403: RATE_LIMITED with a retry delay, another
\* non-2xx status: API_ERROR, an exception: NETWORK_ERROR), with the
\* username of the call.
C20_NeverRejectsAndClassifies ==
    /\ \A c \in CallIds : call[c].pc # "rejected"
    /\ ClassifiedByStatus

\* C21: the list execute returns (allResults, which processUsers returns) is,
\* element for element and in order, the sequence of results handed to
\* onResult during the run; also in a cancelled run and in a run with a failed
\* chunk.
C21_ReturnedListIsStreamed ==
    \A r \in RunIds : op[r].allResults = Emitted(op[r])

\* execute has returned from a cancelled run whose list holds a success and
\* the error result of a failed chunk.
C21_Witness ==
    \E r \in RunIds :
        LET rs == op[r].allResults
        IN  /\ op[r].pc = "finishing" /\ op[r].cancelled
            /\ \E i \in 1..Len(rs) : rs[i].success
            /\ \E i \in 1..Len(rs) : rs[i].errorType = "PROCESSING_ERROR"

\* C22: isRunning() is true exactly while a run of the BatchProcessor is in
\* progress: from the moment a processUsers call is accepted until that call
\* returns, whatever cancel() calls are made and whatever lookups are in flight.
C22_IsRunningWhileInProgress ==
    IsRunning <=> \E r \in RunIds : Executing(r)

\* The identifiers of chunk k (counted from 1).
ChunkUsers(o, k) == { o.chunks[k][j] : j \in 1..Len(o.chunks[k]) }

\* C23: the snapshot of chunk k is handed to onProgress before any lookup of
\* chunk k is issued, and no lookup is issued without it; its processed is the
\* number of results delivered so far, which is the size of chunks 1..k-1,
\* with currentChunk = k and totalChunks = ceil(N/C).
C23_SnapshotBeforeChunk ==
    \A r \in RunIds :
        LET o == op[r]
        IN  /\ \A i \in 1..Len(o.log) :
                   (o.log[i].call = "onProgress" /\ ~o.log[i].arg.isComplete) =>
                       LET s == o.log[i].arg
                           k == s.currentChunk
                       IN  /\ k \in 1..Len(o.chunks)
                           /\ s.processed = ResultsBefore(o, i)
                           /\ s.processed = ChunkStart(o.chunks, k - 1)
                           /\ s.totalChunks = CeilDiv(Len(o.usernames), o.chunkSize)
                           /\ \A j \in 1..(i - 1) :
                                  o.log[j].call = "fetchUserWithRetry" =>
                                      o.log[j].arg \notin ChunkUsers(o, k)
            /\ \A j \in 1..Len(o.log) :
                   o.log[j].call = "fetchUserWithRetry" =>
                       \E i \in 1..(j - 1) :
                           /\ o.log[i].call = "onProgress" /\ ~o.log[i].arg.isComplete
                           /\ o.log[j].arg \in ChunkUsers(o, o.log[i].arg.currentChunk)

\* The lookups of the second chunk of a run were issued after the first chunk
\* failed as a whole: the snapshot of chunk 2 says processed = 2 of 3.
C23_Witness ==
    \E r \in RunIds :
        LET o == op[r]
            snaps == Snapshots(o)
        IN  /\ o.pc = "awaitChunk" /\ o.chunkIndex = 1
            /\ Len(o.usernames) = 3 /\ o.chunkSize = 2
            /\ Len(snaps) = 2 /\ snaps[2].processed = 2 /\ snaps[2].failed = 2
            /\ lookup[r][3] = "pending"

\* A step of run r in which the chunk it was awaiting ends.
ChunkEnds(r) ==
    /\ op[r].pc = "awaitChunk"
    /\ op'[r].pc # "awaitChunk" \/ op'[r].chunkIndex # op[r].chunkIndex

\* C24: when a chunk that is not the last ends in a run that is not cancelled,
\* the run waits the delay between chunks before the next chunk, whether the
\* chunk gave successes, failures, or failed as a whole; when the last chunk
\* ends no delay is waited.
C24_DelayBetweenChunks ==
    [][\A r \in RunIds :
          ChunkEnds(r) =>
              /\ (op[r].chunkIndex < Len(op[r].chunks) - 1 /\ ~op[r].cancelled) =>
                     op'[r].pc = "delay"
              /\ op[r].chunkIndex = Len(op[r].chunks) - 1 => op'[r].pc # "delay"]_vars

\* C25: in fetchUserWithRetry, attempt i returning RATE_LIMITED is followed,
\* when i < maxRetries, by a wait of exactly the retryAfter of that result
\* (RETRY_DELAY when it carries none); when i = maxRetries the call returns
\* that failure and waits no more.
C25_RateLimitedWait ==
    \A i \in 1..Len(retry.attempts) :
        LET result == retry.attempts[i]
        IN  result.errorType = "RATE_LIMITED" =>
                IF i < retry.maxRetries
                THEN /\ Len(retry.waits) >= i
                     /\ retry.waits[i] = IF result.retryAfter # 0 THEN result.retryAfter
                                         ELSE RETRY_DELAY
                ELSE /\ Len(retry.waits) = i - 1
                     /\ retry.pc = "returned"
                     /\ retry.returned = result

\* A call with maxRetries = 3 was rate limited three times, with a retryAfter
\* of 1 s and then with none: it waited 1 s and RETRY_DELAY and returned the
\* third failure.
C25_Witness ==
    /\ retry.pc = "returned" /\ retry.maxRetries = 3
    /\ Len(retry.attempts) = 3
    /\ \A i \in 1..3 : retry.attempts[i].errorType = "RATE_LIMITED"
    /\ retry.attempts[1].retryAfter = 1000 /\ retry.attempts[2].retryAfter = 0
    /\ retry.waits = <<1000, RETRY_DELAY>>
    /\ retry.returned = retry.attempts[3]

\* C26: in fetchUserWithRetry, attempt a returning NETWORK_ERROR is followed,
\* when a < maxRetries, by a wait of 2^a seconds, so that the waits of
\* successive network errors double; when a = maxRetries the call returns
\* that failure and waits no more.
C26_NetworkErrorBackoff ==
    /\ \A a \in 1..Len(retry.attempts) :
           LET result == retry.attempts[a]
           IN  result.errorType = "NETWORK_ERROR" =>
                   IF a < retry.maxRetries
                   THEN Len(retry.waits) >= a /\ retry.waits[a] = Pow2(a) * 1000
                   ELSE /\ Len(retry.waits) = a - 1
                        /\ retry.pc = "returned"
                        /\ retry.returned = result
    /\ \A a \in 1..(Len(retry.waits) - 1) :
           (/\ retry.attempts[a].errorType = "NETWORK_ERROR"
            /\ retry.attempts[a + 1].errorType = "NETWORK_ERROR") =>
               retry.waits[a + 1] = 2 * retry.waits[a]

\* A call with maxRetries = 3 met three network errors: it waited 2 s and 4 s
\* and returned the third failure.
C26_Witness ==
    /\ retry.pc = "returned" /\ retry.maxRetries = 3
    /\ Len(retry.attempts) = 3
    /\ \A a \in 1..3 : retry.attempts[a].errorType = "NETWORK_ERROR"
    /\ retry.waits = <<2000, 4000>>
    /\ retry.returned = retry.attempts[3]

\* The number of RATE_LIMITED results handed to onResult among the first
\* i - 1 entries of the log.
RateLimitedBefore(o, i) ==
    Cardinality({ j \in 1..(i - 1) :
        o.log[j].call = "onResult" /\ o.log[j].arg.errorType = "RATE_LIMITED" })

\* C27: in every progress snapshot rateLimitHits is the number of results
\* delivered so far whose errorType is RATE_LIMITED.
C27_RateLimitHitsPerResult ==
    \A r \in RunIds :
        \A i \in 1..Len(op[r].log) :
            op[r].log[i].call = "onProgress" =>
                op[r].log[i].arg.rateLimitHits = RateLimitedBefore(op[r], i)

\* The rate-limit info a response states by its headers alone.
InfoOf(headers) ==
    [remaining |-> headers.remaining,
     resetTime |-> IF headers.reset # Null THEN headers.reset * 1000 ELSE Null,
     limit |-> headers.limit]

\* C28: when fetchUser receives a response, of whatever status, rateLimitInfo
\* becomes the info of that response's headers and keeps nothing of an
\* earlier response; when fetch fails with an exception rateLimitInfo is left
\* unchanged.
C28_RateLimitInfoOverwritten ==
    [][/\ \A c \in CallIds, status \in Statuses, headers \in Headers, now \in Times :
              FetchResolves(c, status, headers, now) => rateLimitInfo' = InfoOf(headers)
       /\ \A c \in CallIds : FetchRejects(c) => rateLimitInfo' = rateLimitInfo]_vars

\* C28 (amended): when fetchUser receives a response, of whatever status,
\* each field of rateLimitInfo whose header the response carries is
\* overwritten from it (resetTime in ms) and each field whose header is absent
\* keeps its earlier value; an exception of fetch or of the reading of the
\* body leaves rateLimitInfo unchanged.
C28_RateLimitInfoUpdated ==
    [][/\ \A c \in CallIds, status \in Statuses, headers \in Headers, now \in Times :
              FetchResolves(c, status, headers, now) =>
                  /\ rateLimitInfo'.remaining =
                         IF headers.remaining # Null THEN headers.remaining
                         ELSE rateLimitInfo.remaining
                  /\ rateLimitInfo'.resetTime =
                         IF headers.reset # Null THEN headers.reset * 1000
                         ELSE rateLimitInfo.resetTime
                  /\ rateLimitInfo'.limit =
                         IF headers.limit # Null THEN headers.limit
                         ELSE rateLimitInfo.limit
       /\ \A c \in CallIds :
              (FetchRejects(c) \/ JsonRejects(c)) => rateLimitInfo' = rateLimitInfo]_vars

\* Two responses were received, one with the remaining and reset headers only
\* and one with the reset and limit headers only: rateLimitInfo has remaining
\* of the former and resetTime and limit of the latter.
C28_Witness ==
    \E c, d \in CallIds :
        /\ call[c].status # 0 /\ call[d].status # 0
        /\ call[c].headers = [remaining |-> 0, reset |-> 7, limit |-> Null]
        /\ call[d].headers = [remaining |-> Null, reset |-> 2, limit |-> 60]
        /\ rateLimitInfo = [remaining |-> 0, resetTime |-> 2000, limit |-> 60]

\* Every entry of the cache is a success that a fetchUser call returned for a
\* username whose lower-cased form is the key of the entry.
CacheHoldsSuccesses ==
    \A k \in CacheKeys :
        cache[k] # NoEntry =>
            /\ cache[k].success
            /\ \E c \in CachedCallIds :
                   /\ cachedCall[c].pc = "returned"
                   /\ cachedCall[c].result = cache[k]
                   /\ CacheKey(cachedCall[c].username) = k

\* A step in which a fetchUser call ends with a failure.
EndsWithFailure(c) ==
    /\ cachedCall[c].pc \in {"fetch", "json"}
    /\ cachedCall'[c].pc = "returned"
    /\ ~cachedCall'[c].result.success

\* C29: the cache of the bundled GitHubApiService holds only successes, each
\* under the lower-cased username of a call that returned it; a call that
\* ends with a failure (404, 403, another error status, an exception) adds no
\* entry and changes none.
C29_OnlySuccessesCached ==
    /\ []CacheHoldsSuccesses
    /\ [][\A c \in CachedCallIds : EndsWithFailure(c) => cache' = cache]_vars

\* While the cache holds a success under "a", calls for "a" and "A" that were
\* made before it was stored have ended with failures, of a 404 and of a 403.
C29_Witness ==
    /\ cache[<<"a">>].success
    /\ \E c, d \in CachedCallIds :
           /\ cachedCall[c].pc = "returned" /\ cachedCall[c].status = 404
           /\ cachedCall[c].username = <<"A">>
           /\ cachedCall[d].pc = "returned" /\ cachedCall[d].status = 403
           /\ cachedCall[d].username = <<"a">>

\* The budget of the info is exhausted and not yet reset at the time now:
\* remaining and resetTime are known, remaining <= 0, and now is before resetTime.
Exhausted(info, now) ==
    /\ info.remaining # Null /\ info.resetTime # Null
    /\ info.remaining <= 0
    /\ now < info.resetTime

\* C30: isRateLimited() returns true exactly when the rate-limit info says
\* the budget is exhausted and not yet reset (remaining and resetTime known,
\* remaining <= 0, so also remaining = 0, and the time before resetTime), and
\* false otherwise.
C30_IsRateLimitedExact ==
    rateLimited.pc = "returned" =>
        (rateLimited.returned <=> Exhausted(rateLimitInfo, rateLimited.now))

\* C31: a cancel() issued while a run is executing sets the cancelled flag of
\* that run: at every moment at which cancel() can be called, every run that
\* is executing and not yet cancelled is the one cancel() reaches, also after
\* an earlier run of the instance was cancelled or has finished.
C31_CancelReachesExecutingRun ==
    \A r \in RunIds :
        (MicrotasksDone /\ Executing(r) /\ ~op[r].cancelled) => CancelReaches(r)

\* C32: in every progress snapshot of every run processed = successful +
\* failed and 0 <= processed <= total, total being the number of input
\* identifiers; in the final snapshot of a run that was not cancelled
\* processed = total.
C32_CountersConsistent ==
    \A r \in RunIds :
        LET o == op[r]
            snaps == Snapshots(o)
        IN  \A i \in 1..Len(snaps) :
                /\ snaps[i].processed = snaps[i].successful + snaps[i].failed
                /\ snaps[i].processed >= 0 /\ snaps[i].processed <= snaps[i].total
                /\ snaps[i].total = Len(o.usernames)
                /\ (snaps[i].isComplete /\ ~snaps[i].cancelled) =>
                       snaps[i].processed = snaps[i].total

\* A run over three identifiers has emitted its final snapshot, not
\* cancelled, with successes and failures among its three results.
C32_Witness ==
    \E r \in RunIds :
        LET snaps == Snapshots(op[r])
        IN  /\ op[r].pc = "finishing" /\ ~op[r].cancelled
            /\ Len(op[r].usernames) = 3
            /\ snaps[Len(snaps)].isComplete
            /\ snaps[Len(snaps)].successful = 1 /\ snaps[Len(snaps)].failed = 2

\* C33: in every progress snapshot of a run over a non-empty identifier list,
\* the final snapshot and that of a cancelled run included,
\* 1 <= currentChunk <= totalChunks.
C33_CurrentChunkInRange ==
    \A r \in RunIds :
        LET snaps == Snapshots(op[r])
        IN  op[r].usernames # <<>> =>
                \A i \in 1..Len(snaps) :
                    snaps[i].currentChunk >= 1 /\ snaps[i].currentChunk <= snaps[i].totalChunks

\* The lookups issued through the BatchProcessor that have not settled.
PendingLookups == { <<r, p>> \in RunIds \X Positions : lookup[r][p] = "pending" }

\* C34: at every moment the number of lookups issued through the
\* BatchProcessor that have not yet settled is at most the chunk size.
C34_PendingWithinChunkSize ==
    Cardinality(PendingLookups) <= chunkSize

\* The retry delay of every RATE_LIMITED result fetchUser returned is
\* positive and at most RETRY_DELAY.
RetryDelayWithinBase ==
    \A c \in CallIds :
        (call[c].pc = "returned" /\ call[c].result.errorType = "RATE_LIMITED") =>
            call[c].result.retryAfter > 0 /\ call[c].result.retryAfter <= RETRY_DELAY

\* C35: the retry delay of every RATE_LIMITED failure is strictly positive
\* and at most RETRY_DELAY: when the 403 response is received at the time now,
\* it is min(resetTime - now, RETRY_DELAY) if the rate-limit info then holds a
\* resetTime after now, and RETRY_DELAY otherwise.
C35_RetryDelayCapped ==
    /\ []RetryDelayWithinBase
    /\ [][\A c \in CallIds, headers \in Headers, now \in Times :
              FetchResolves(c, 403, headers, now) =>
                  call'[c].result.retryAfter =
                      IF rateLimitInfo'.resetTime # Null /\ rateLimitInfo'.resetTime > now
                      THEN Min(rateLimitInfo'.resetTime - now, RETRY_DELAY)
                      ELSE RETRY_DELAY]_vars

\* A 403 whose reset header is 7 s was received at 0.5 s, and another at 3 s:
\* the delays are RETRY_DELAY, not 6.5 s, and 4 s.
C35_Witness ==
    \E c, d \in CallIds :
        /\ call[c].pc = "returned" /\ call[c].status = 403
        /\ call[c].headers.reset = 7 /\ call[c].result.retryAfter = RETRY_DELAY
        /\ call[d].pc = "returned" /\ call[d].status = 403
        /\ call[d].headers.reset = 7 /\ call[d].result.retryAfter = 4000

\* C36: for every maxRetries >= 0, what fetchUserWithRetry returns is a
\* result of fetchUser for its username, a success or a failure with an
\* error kind; it is never null.
C36_NeverReturnsNull ==
    retry.pc = "returned" =>
        /\ retry.returned # NullResult
        /\ retry.returned.username = retry.username
        /\ retry.returned.success \/ retry.returned.errorType \in FailureKinds

\* The chunk of position p of run r has failed: one of its lookups rejected.
FailedChunk(r, p) ==
    \E q \in ChunkPositions(op[r], ChunkOf(op[r], p)) : lookup[r][q] = "REJECTED"

\* The results run r has delivered are, position for position, those of its
\* input identifiers, in onResult and in the list to return, and outside a
\* failed chunk each is the result of the outcome of its own lookup.
DeliveredInInputOrder(r) ==
    LET o == op[r]
    IN  \A i \in 1..Len(Emitted(o)) :
            /\ Emitted(o)[i].username = o.usernames[i]
            /\ o.allResults[i].username = o.usernames[i]
            /\ ~FailedChunk(r, i) =>
                   /\ lookup[r][i] \in FulfilledOutcomes
                   /\ Emitted(o)[i] = ResultOf(o.usernames[i], lookup[r][i])

\* C37: the i-th result handed to onResult and the i-th element of the list
\* to return belong to the i-th input identifier, and outside a failed chunk
\* the result is determined by the outcome of that identifier's lookup alone,
\* whatever the order in which the lookups of a chunk settled; two runs over
\* the same identifiers agree on every delivered result whose lookups had the
\* same outcome.
C37_DeliveryOrderDeterministic ==
    /\ \A r \in RunIds : Executing(r) => DeliveredInInputOrder(r)
    /\ \A r1, r2 \in RunIds :
           (Executing(r1) /\ Executing(r2) /\ op[r1].usernames = op[r2].usernames) =>
               \A i \in 1..Min(Len(Emitted(op[r1])), Len(Emitted(op[r2]))) :
                   (~FailedChunk(r1, i) /\ ~FailedChunk(r2, i)
                        /\ lookup[r1][i] = lookup[r2][i]) =>
                       Emitted(op[r1])[i] = Emitted(op[r2])[i]

\* Two runs over the same identifiers have each delivered a chunk of two
\* results whose lookups had the same two different outcomes.
C37_Witness ==
    \E r1, r2 \in RunIds :
        /\ r1 # r2 /\ Executing(r1) /\ Executing(r2)
        /\ op[r1].usernames = op[r2].usernames
        /\ op[r1].chunkSize = 2 /\ op[r2].chunkSize = 2
        /\ Len(Emitted(op[r1])) >= 2 /\ Len(Emitted(op[r2])) >= 2
        /\ lookup[r1][1] = "SUCCESS" /\ lookup[r1][2] = "NOT_FOUND"
        /\ lookup[r2][1] = "SUCCESS" /\ lookup[r2][2] = "NOT_FOUND"

NoneExecuting == \A r \in RunIds : ~Executing(r)

\* A processUsers call is rejected only while a run executes, and an accepted
\* call clears the result map and starts from zeroed counters.
CallAcceptedAfresh ==
    /\ \A r \in RunIds :
           ProcessUsersAlreadyRunning(r) => \E q \in RunIds : Executing(q)
    /\ \A r \in RunIds, usernames \in UserLists :
           ProcessUsers(r, usernames) =>
               /\ results' = {}
               /\ op'[r].stats = ZeroStats
               /\ op'[r].log[1].arg.processed = 0
               /\ op'[r].log[1].arg.successful = 0
               /\ op'[r].log[1].arg.failed = 0
               /\ op'[r].log[1].arg.rateLimitHits = 0

\* C38: when no processUsers call is executing (every call made has returned
\* or thrown), the instance is not running and has no current operation; a
\* processUsers call is rejected only while a run executes, so the next call
\* is accepted, and an accepted call clears the result map and starts from
\* zeroed counters.
C38_EndLeavesProcessorReady ==
    /\ [](NoneExecuting => ~IsRunning /\ currentOperation = 0)
    /\ [][CallAcceptedAfresh]_vars

\* A first call ended by throwing with nothing else executing, and the next
\* call was accepted.
C38_Witness ==
    /\ op[1].pc = "threw"
    /\ op[2].pc = "awaitChunk"
    /\ IsRunning /\ currentOperation = 2 /\ results = {}

\* The request of call c is on the network, or its response is being read.
OnNetwork(c) == cachedCall[c].pc \in {"fetch", "json"}

\* C39: two fetchUser calls on the caching service whose usernames have the
\* same cache key are never on the network at the same time.
C39_OneRequestPerKey ==
    \A c, d \in CachedCallIds :
        (c # d /\ OnNetwork(c) /\ OnNetwork(d)) =>
            CacheKey(cachedCall[c].username) # CacheKey(cachedCall[d].username)

\* The searches that were started, and the identifiers of the latest one.
StartedSearches == { r \in RunIds : app.searched[r] # <<>> }

CurrentIdentifiers ==
    IF StartedSearches = {} THEN {}
    ELSE LET r == CHOOSE s \in StartedSearches : \A q \in StartedSearches : q <= s
             valid == ValidIdentifiers(app.searched[r])
         IN  { valid[i] : i \in 1..Len(valid) }

OfCurrentSearch(rs) == \A i \in 1..Len(rs) : rs[i].username \in CurrentIdentifiers

\* The runs that will hand the results of their awaited chunk to onResult.
Delivering == { r \in RunIds : op[r].pc = "awaitChunk" }

\* C40: the rendered cards and state.currentResults hold only results for
\* identifiers of the search started last, and at most one search is
\* delivering results at a time.
C40_OnlyResultsOfCurrentSearch ==
    /\ OfCurrentSearch(app.userCards)
    /\ OfCurrentSearch(app.currentResults)
    /\ Cardinality(Delivering) <= 1

====
